---------------------------- MODULE Spec2Model ----------------------------
(***************************************************************************)
(* Model of the field extraction and citation engine of cre-parsing:        *)
(*   app/parsers/extractor.py        DataExtractor (coordinator + regex)    *)
(*   app/parsers/openai_extractor.py OpenAIExtractor (model strategy and    *)
(*                                   completeness scorer)                   *)
(*   app/config.py                   Config                                 *)
(*                                                                          *)
(* A text is a sequence of one-character strings.  A JSON-shaped Python     *)
(* value is a tagged node: none, str, int, float, dict (an ordered sequence  *)
(* of key/value entries, as Python dicts keep insertion order) or list.     *)
(***************************************************************************)
EXTENDS Integers, Sequences, FiniteSets, TLC

(***************************************************************************)
(* Characters and the character classes the catalog's patterns use.         *)
(***************************************************************************)

Min(a, b) == IF a <= b THEN a ELSE b
Max(a, b) == IF a >= b THEN a ELSE b

\* re.IGNORECASE: both sides are compared lower-cased.
LowerMap ==
    [A |-> "a", B |-> "b", C |-> "c", D |-> "d", E |-> "e", F |-> "f",
     G |-> "g", H |-> "h", I |-> "i", J |-> "j", K |-> "k", L |-> "l",
     M |-> "m", N |-> "n", O |-> "o", P |-> "p", Q |-> "q", R |-> "r",
     S |-> "s", T |-> "t", U |-> "u", V |-> "v", W |-> "w", X |-> "x",
     Y |-> "y", Z |-> "z"]

Lower(c) == IF c \in DOMAIN LowerMap THEN LowerMap[c] ELSE c

\* \s of a str pattern, and the characters str.strip() removes.
Whitespace == {" ", "\n", "\t", "\r"}

\* \d
Digits == {"0", "1", "2", "3", "4", "5", "6", "7", "8", "9"}

\* Membership of a character in a class of the patterns.
InClass(c, cls) ==
    CASE cls = "ws"            -> c \in Whitespace
      [] cls = "notnl"         -> c # "\n"
      [] cls = "digit"         -> c \in Digits
      [] cls = "digitcomma"    -> c \in Digits \cup {","}
      [] cls = "digitcommadot" -> c \in Digits \cup {",", "."}
      [] cls = "digitdot"      -> c \in Digits \cup {"."}
      [] cls = "dollar"        -> c = "$"
      [] cls = "dot"           -> c = "."
      [] cls = "percent"       -> c = "%"

(***************************************************************************)
(* Pattern elements.  A pattern is a sequence of elements:                  *)
(*   lit    a literal string (compared case-insensitively)                  *)
(*   rep    a greedy repetition cls{lo,hi} (many: no upper limit)           *)
(*   alt    an ordered alternation (?:a|b|...) of element sequences         *)
(*   open / close   the parentheses of capture group 1                      *)
(***************************************************************************)
Lit(s) == [k |-> "lit", s |-> s]
Rep(cls, lo, hi) == [k |-> "rep", cls |-> cls, lo |-> lo, hi |-> hi, many |-> FALSE]
Star(cls) == [k |-> "rep", cls |-> cls, lo |-> 0, hi |-> 0, many |-> TRUE]
Plus(cls) == [k |-> "rep", cls |-> cls, lo |-> 1, hi |-> 0, many |-> TRUE]
Opt(cls) == [k |-> "rep", cls |-> cls, lo |-> 0, hi |-> 1, many |-> FALSE]
Alt(a) == [k |-> "alt", a |-> a]
Open == [k |-> "open"]
Close == [k |-> "close"]

\* The result of a failed match attempt.
NoMatch == [ok |-> FALSE]

\* Whether literal s occurs in text at position pos (1-based), ignoring case.
LitAt(text, s, pos) ==
    /\ pos + Len(s) - 1 <= Len(text)
    /\ \A i \in 1..Len(s) : Lower(text[pos + i - 1]) = s[i]

\* The number of consecutive characters of class cls from position pos on:
\* the distance to the first position that is past the text or not in cls.
RunLen(text, cls, pos) ==
    (CHOOSE q \in pos..(Len(text) + 1) :
        q = Len(text) + 1 \/ ~InClass(text[q], cls)) - pos


(***************************************************************************)
(* The backtracking matcher of the re module, for the elements above:       *)
(* MatchHere tries to match elems at pos; gs/ge are the bounds of group 1   *)
(* found so far.  Repetitions are greedy and give characters back one at a  *)
(* time; alternatives are tried in order.                                   *)
(***************************************************************************)
RECURSIVE MatchHere(_, _, _, _, _)
RECURSIVE TryRep(_, _, _, _, _, _, _)
RECURSIVE TryAlt(_, _, _, _, _, _, _)

\* The first attempt if it matched, else the next one.
FirstOk(m, next) == IF m.ok THEN m ELSE next

\* The most characters a repetition can take at pos.
RepMax(text, e, pos) ==
    IF e.many
    THEN RunLen(text, e.cls, pos)
    ELSE Min(RunLen(text, e.cls, pos), e.hi)

\* Element e at pos, followed by rest.
MatchElem(text, e, rest, pos, gs, ge) ==
    CASE e.k = "lit" ->
            IF LitAt(text, e.s, pos)
            THEN MatchHere(text, rest, pos + Len(e.s), gs, ge)
            ELSE NoMatch
      [] e.k = "rep" ->
            TryRep(text, rest, pos, RepMax(text, e, pos), e.lo, gs, ge)
      [] e.k = "alt" -> TryAlt(text, e.a, 1, rest, pos, gs, ge)
      [] e.k = "open" -> MatchHere(text, rest, pos, pos, ge)
      [] e.k = "close" -> MatchHere(text, rest, pos, gs, pos)

MatchHere(text, elems, pos, gs, ge) ==
    IF elems = <<>>
    THEN [ok |-> TRUE, end |-> pos, gs |-> gs, ge |-> ge]
    ELSE MatchElem(text, Head(elems), Tail(elems), pos, gs, ge)

\* A repetition taking n characters, then n - 1, ... down to lo.
TryRep(text, rest, pos, n, lo, gs, ge) ==
    IF n < lo
    THEN NoMatch
    ELSE FirstOk(MatchHere(text, rest, pos + n, gs, ge),
                 TryRep(text, rest, pos, n - 1, lo, gs, ge))

\* One alternative followed by rest.  An alternative whose leading literal
\* is absent at pos fails without being expanded (the literal-prefix check
\* of the engine).
AltHere(text, alt, rest, pos, gs, ge) ==
    IF Head(alt).k = "lit" /\ ~LitAt(text, Head(alt).s, pos)
    THEN NoMatch
    ELSE MatchHere(text, alt \o rest, pos, gs, ge)

\* The alternatives from the j-th on, in order.
TryAlt(text, alts, j, rest, pos, gs, ge) ==
    IF j > Len(alts)
    THEN NoMatch
    ELSE FirstOk(AltHere(text, alts[j], rest, pos, gs, ge),
                 TryAlt(text, alts, j + 1, rest, pos, gs, ge))

\* The positions from pos on at which the pattern matches.  A match can
\* only start with the first character of one of the pattern's labels
\* (pattern.first), so the other positions are not tried.
MatchStarts(text, pattern, pos) ==
    {p \in pos..Len(text) :
        /\ Lower(text[p]) \in pattern.first
        /\ MatchHere(text, pattern.elems, p, 0, 0).ok}

\* re.finditer(pattern, text, re.IGNORECASE | re.MULTILINE): the
\* non-overlapping matches from position pos on, leftmost first, as records
\* [start, end, gs, ge]: the match is text[start..end-1], group 1 is
\* text[gs..ge-1].  (No pattern of the catalog matches the empty string.)
RECURSIVE finditer(_, _, _)

\* The match m found at p, then the matches after it.
MatchThenRest(text, pattern, p, m) ==
    <<[start |-> p, end |-> m.end, gs |-> m.gs, ge |-> m.ge]>>
    \o finditer(text, pattern, m.end)

\* The matches given the positions at which the pattern matches.
MatchesAt(text, pattern, starts) ==
    IF starts = {}
    THEN <<>>
    ELSE MatchThenRest(text, pattern,
                       CHOOSE q \in starts : \A r \in starts : q <= r,
                       MatchHere(text, pattern.elems,
                                 CHOOSE q \in starts : \A r \in starts : q <= r,
                                 0, 0))

finditer(text, pattern, pos) ==
    MatchesAt(text, pattern, MatchStarts(text, pattern, pos))

(***************************************************************************)
(* JSON-shaped values.                                                      *)
(***************************************************************************)
None == [t |-> "none"]
Str(s) == [t |-> "str", s |-> s]
\* An int, and a float held in hundredths (all floats of the model are
\* results of round(x, 2) or literals with at most two decimals).
PyInt(n) == [t |-> "int", i |-> n]
PyFloat(h) == [t |-> "float", h |-> h]
List(l) == [t |-> "list", l |-> l]
Dict(d) == [t |-> "dict", d |-> d]
KV(key, value) == [k |-> key, v |-> value]

\* The keys of a dict node, in insertion order.
Keys(node) == [i \in 1..Len(node.d) |-> node.d[i].k]

\* key in obj
HasKey(node, key) == \E i \in 1..Len(node.d) : node.d[i].k = key

\* obj[key]
Get(node, key) == node.d[CHOOSE i \in 1..Len(node.d) : node.d[i].k = key].v

\* obj[key] = value on an existing key (the position of the key is kept).
Put(node, key, value) ==
    Dict([i \in 1..Len(node.d) |->
            IF node.d[i].k = key THEN KV(key, value) ELSE node.d[i]])

\* Python truthiness of a value.
Truthy(node) ==
    CASE node.t = "none" -> FALSE
      [] node.t = "str"  -> node.s # <<>>
      [] node.t = "int"  -> node.i # 0
      [] node.t = "float" -> node.h # 0
      [] node.t = "list" -> node.l # <<>>
      [] node.t = "dict" -> node.d # <<>>

(***************************************************************************)
(* String helpers.                                                          *)
(***************************************************************************)

\* A slice index as Python normalises it: a negative index counts from the
\* end, and the result is clamped to 0..len.
SliceIndex(n, i) == IF i < 0 THEN Max(0, i + n) ELSE Min(i, n)

\* text[a:b]
Slice(text, a, b) ==
    SubSeq(text, SliceIndex(Len(text), a) + 1, SliceIndex(Len(text), b))

\* str.strip()
RECURSIVE LStrip(_)
LStrip(s) == IF s # <<>> /\ Head(s) \in Whitespace THEN LStrip(Tail(s)) ELSE s

RECURSIVE RStrip(_)
RStrip(s) ==
    IF s # <<>> /\ s[Len(s)] \in Whitespace
    THEN RStrip(SubSeq(s, 1, Len(s) - 1))
    ELSE s

strip(s) == RStrip(LStrip(s))

\* sub in s
Contains(s, sub) ==
    \E i \in 1..(Len(s) - Len(sub) + 1) : SubSeq(s, i, i + Len(sub) - 1) = sub

(***************************************************************************)
(* The pattern catalog (extractor.py).  Every pattern has the form          *)
(*     (?:label|label|...):\s*<capture>                                     *)
(***************************************************************************)

\* ([^\n]+)
CapRestOfLine == <<Open, Plus("notnl"), Close>>
\* ([\d,]+)
CapDigitsComma == <<Open, Plus("digitcomma"), Close>>
\* ([\d,.]+)
CapDigitsCommaDot == <<Open, Plus("digitcommadot"), Close>>
\* (\d{4})
CapYear == <<Open, Rep("digit", 4, 4), Close>>
\* (\d+)
CapDigits == <<Open, Plus("digit"), Close>>
\* ([\d.]+%)
CapPercent == <<Open, Plus("digitdot"), Lit(<<"%">>), Close>>
\* \$?([\d,]+\.?\d*)
CapMoney == <<Opt("dollar"), Open, Plus("digitcomma"), Opt("dot"), Star("digit"), Close>>
\* ([\d.]+)%?
CapRateOptPct == <<Open, Plus("digitdot"), Close, Opt("percent")>>
\* ([\d.]+)
CapDigitsDot == <<Open, Plus("digitdot"), Close>>
\* (\d+)\s*(?:year|month)
CapTerm ==
    <<Open, Plus("digit"), Close, Star("ws"),
      Alt(<<<<Lit(<<"y","e","a","r">>)>>, <<Lit(<<"m","o","n","t","h">>)>>>>)>>

\* (?:labels):\s*tail ; labels keeps the alternatives for pattern.lower() tests.
Pattern(labels, tail) ==
    [labels |-> labels,
     first |-> {Head(labels[j]).s[1] : j \in 1..Len(labels)},
     elems |-> <<Alt(labels), Lit(<<":">>), Star("ws")>> \o tail]

(***************************************************************************)
(* CitationExtractor (extractor.py, _find_pattern_with_citation and         *)
(* _find_multiple_patterns_with_citations).                                 *)
(***************************************************************************)

\* The width of the context kept on each side of a match.
CitationWindow == 50

\* The window start without the clamp at 0.
WindowStart_unclamped(text, m) == (m.start - 1) - CitationWindow

\* The window end taken from the last character of the match instead of
\* from match.end().
WindowEnd_short(text, m) == Min(Len(text), (m.end - 2))

\* start = max(0, match.start() - 50), with match.start() 0-based
WindowStart(text, m) == Max(0, (m.start - 1) - CitationWindow)

\* end = min(len(text), match.end() + 50), with match.end() 0-based exclusive
WindowEnd(text, m) == Min(Len(text), (m.end - 1) + CitationWindow)

\* source_text = text[start:end].strip()
SourceText(text, m) == strip(Slice(text, WindowStart(text, m), WindowEnd(text, m)))

\* match.group(1).strip()  (every pattern has exactly one group, which takes
\* part in every match, so match.lastindex = 1)
GroupValue(text, m) == strip(SubSeq(text, m.gs, m.ge - 1))

\* {"value": ..., "unit": ..., "source_text": ...}
FieldValue(value, unit, source_text) ==
    Dict(<<KV("value", value), KV("unit", unit), KV("source_text", source_text)>>)

NullField == FieldValue(None, None, None)

\* return {...} if value else the null field (lines 229-235)
CitedField(text, match, value) ==
    IF value # <<>>
    THEN FieldValue(Str(value), None, Str(SourceText(text, match)))
    ELSE NullField

\* SelectMatch giving "" instead of None when there is no such match.
SelectMatch_blank(text, match_list, index) ==
    IF match_list # <<>> /\ index < Len(match_list)
    THEN CitedField(text, match_list[index + 1],
                    GroupValue(text, match_list[index + 1]))
    ELSE FieldValue(Str(<<>>), None, None)

\* if matches and len(matches) > index (line 221)
SelectMatch(text, match_list, index) ==
    IF match_list # <<>> /\ index < Len(match_list)
    THEN CitedField(text, match_list[index + 1],
                    GroupValue(text, match_list[index + 1]))
    ELSE NullField

_find_pattern_with_citation(text, pattern, index) ==
    SelectMatch(text, finditer(text, pattern, 1), index)

\* The label key of a list entry, chosen by substring tests on pattern.lower().
PatternMentions(pattern, word) ==
    \E j \in 1..Len(pattern.labels) :
        \E e \in 1..Len(pattern.labels[j]) :
            /\ pattern.labels[j][e].k = "lit"
            /\ Contains(pattern.labels[j][e].s, word)

\* key = "property" for every pattern.
ListKey_property(pattern) == "property"

ListKey(pattern) ==
    IF PatternMentions(pattern, <<"t","e","n","a","n","t">>) THEN "name"
    ELSE IF PatternMentions(pattern, <<"r","i","s","k">>) THEN "risk"
    ELSE IF \/ PatternMentions(pattern, <<"m","i","t","i","g","a","t","i","o","n">>)
            \/ PatternMentions(pattern, <<"s","t","r","a","t","e","g","y">>)
         THEN "strategy"
    ELSE IF PatternMentions(pattern, <<"t","r","e","n","d">>) THEN "trend"
    ELSE "property"

\* results.append(...) without the test of the value.
CitedEntry_blank_kept(text, pattern, match, value) ==
    <<Dict(<<KV(ListKey(pattern), Str(value)),
             KV("source_text", Str(SourceText(text, match)))>>)>>

\* if value: results.append({key: value, "source_text": source_text})
CitedEntry(text, pattern, match, value) ==
    IF value # <<>>
    THEN <<Dict(<<KV(ListKey(pattern), Str(value)),
                  KV("source_text", Str(SourceText(text, match)))>>)>>
    ELSE <<>>

\* for match in matches[:limit] (line 243)
RECURSIVE CollectMatches(_, _, _, _)
CollectMatches(text, pattern, matches, i) ==
    IF i > Len(matches)
    THEN <<>>
    ELSE CitedEntry(text, pattern, matches[i], GroupValue(text, matches[i]))
         \o CollectMatches(text, pattern, matches, i + 1)

\* for match in matches, without the limit.
_find_multiple_patterns_unbounded(text, pattern, limit) ==
    List(CollectMatches(text, pattern, finditer(text, pattern, 1), 1))

_find_multiple_patterns_with_citations(text, pattern, limit) ==
    List(CollectMatches(text, pattern,
                        Slice(finditer(text, pattern, 1), 0, limit), 1))

_find_pattern_with_source(text, pattern, index) ==
    _find_pattern_with_citation(text, pattern, index)

_find_multiple_patterns_with_sources(text, pattern, limit) ==
    _find_multiple_patterns_with_citations(text, pattern, limit)

(***************************************************************************)
(* RegexExtractionStrategy (extractor.py, _extract_metrics_regex).          *)
(***************************************************************************)
\* An entry of a group's dict literal: the key, the function called for it
\* ("" for a literal []), the pattern and the index or limit passed.
Entry(key, call, pattern, n) ==
    [key |-> key, call |-> call, pattern |-> pattern, n |-> n]

\* The value an entry's call returns for a text.
EntryValue(text, e) ==
    CASE e.call = "_find_pattern_with_source" ->
            _find_pattern_with_source(text, e.pattern, e.n)
      [] e.call = "_find_pattern_with_citation" ->
            _find_pattern_with_citation(text, e.pattern, e.n)
      [] e.call = "_find_multiple_patterns_with_sources" ->
            _find_multiple_patterns_with_sources(text, e.pattern, e.n)
      [] e.call = "_find_multiple_patterns_with_citations" ->
            _find_multiple_patterns_with_citations(text, e.pattern, e.n)
      [] e.call = "" -> List(<<>>)

\* The dict a group's literal evaluates to.
GroupDict(text, entries) ==
    Dict([i \in 1..Len(entries) |->
            KV(entries[i].key, EntryValue(text, entries[i]))])

PropertyDetailsEntries ==
    <<Entry("property_address", "_find_pattern_with_source",
            Pattern(<<<<Lit(<<"a","d","d","r","e","s","s">>)>>,
                      <<Lit(<<"l","o","c","a","t","i","o","n">>)>>,
                      <<Lit(<<"p","r","o","p","e","r","t","y">>)>>>>, CapRestOfLine), 0),
      Entry("property_type", "_find_pattern_with_source",
            Pattern(<<<<Lit(<<"p","r","o","p","e","r","t","y"," ","t","y","p","e">>)>>,
                      <<Lit(<<"a","s","s","e","t"," ","c","l","a","s","s">>)>>>>, CapRestOfLine), 0),
      Entry("square_footage", "_find_pattern_with_source",
            Pattern(<<<<Lit(<<"s","q","u","a","r","e"," ","f","e","e","t">>)>>,
                      <<Lit(<<"s","f">>)>>,
                      <<Lit(<<"t","o","t","a","l"," ","a","r","e","a">>)>>>>, CapDigitsComma), 0),
      Entry("acres", "_find_pattern_with_source",
            Pattern(<<<<Lit(<<"a","c","r","e","s">>)>>,
                      <<Lit(<<"a","c","r","e","a","g","e">>)>>,
                      <<Lit(<<"l","a","n","d"," ","a","r","e","a">>)>>>>, CapDigitsCommaDot), 0),
      Entry("land_square_feet", "_find_pattern_with_source",
            Pattern(<<<<Lit(<<"l","a","n","d"," ","s","q","u","a","r","e"," ","f","e","e","t">>)>>,
                      <<Lit(<<"l","a","n","d"," ","s","f">>)>>,
                      <<Lit(<<"l","a","n","d"," ","a","r","e","a">>), Star("ws"), Lit(<<"(","s","f",")">>)>>>>, CapDigitsComma), 0),
      Entry("gross_building_area", "_find_pattern_with_source",
            Pattern(<<<<Lit(<<"g","r","o","s","s"," ","b","u","i","l","d","i","n","g"," ","a","r","e","a">>)>>,
                      <<Lit(<<"g","b","a">>)>>>>, CapDigitsComma), 0),
      Entry("net_rentable_area", "_find_pattern_with_source",
            Pattern(<<<<Lit(<<"n","e","t"," ","r","e","n","t","a","b","l","e"," ","a","r","e","a">>)>>,
                      <<Lit(<<"n","r","a">>)>>>>, CapDigitsComma), 0),
      Entry("year_built", "_find_pattern_with_source",
            Pattern(<<<<Lit(<<"y","e","a","r"," ","b","u","i","l","t">>)>>,
                      <<Lit(<<"y","e","a","r"," ","c","o","n","s","t","r","u","c","t","e","d">>)>>>>, CapYear), 0),
      Entry("units", "_find_pattern_with_source",
            Pattern(<<<<Lit(<<"n","u","m","b","e","r"," ","o","f"," ","u","n","i","t","s">>)>>,
                      <<Lit(<<"t","o","t","a","l"," ","u","n","i","t","s">>)>>>>, CapDigits), 0),
      Entry("occupancy_rate", "_find_pattern_with_source",
            Pattern(<<<<Lit(<<"o","c","c","u","p","a","n","c","y"," ","r","a","t","e">>)>>,
                      <<Lit(<<"o","c","c","u","p","a","n","c","y">>)>>>>, CapPercent), 0)>>

FinancialMetricsEntries ==
    <<Entry("noi_annual", "_find_pattern_with_source",
            Pattern(<<<<Lit(<<"n","e","t"," ","o","p","e","r","a","t","i","n","g"," ","i","n","c","o","m","e">>)>>,
                      <<Lit(<<"n","o","i">>)>>>>, CapMoney), 0),
      Entry("stabilized_noi", "_find_pattern_with_source",
            Pattern(<<<<Lit(<<"s","t","a","b","i","l","i","z","e","d"," ","n","o","i">>)>>,
                      <<Lit(<<"s","t","a","b","i","l","i","z","e","d"," ","n","e","t"," ","o","p","e","r","a","t","i","n","g"," ","i","n","c","o","m","e">>)>>>>, CapMoney), 0),
      Entry("cap_rate", "_find_pattern_with_source",
            Pattern(<<<<Lit(<<"c","a","p"," ","r","a","t","e">>)>>,
                      <<Lit(<<"c","a","p","i","t","a","l","i","z","a","t","i","o","n"," ","r","a","t","e">>)>>>>, CapRateOptPct), 0),
      Entry("purchase_price", "_find_pattern_with_source",
            Pattern(<<<<Lit(<<"p","u","r","c","h","a","s","e"," ","p","r","i","c","e">>)>>,
                      <<Lit(<<"a","c","q","u","i","s","i","t","i","o","n"," ","p","r","i","c","e">>)>>>>, CapMoney), 0),
      Entry("appraised_value", "_find_pattern_with_source",
            Pattern(<<<<Lit(<<"a","p","p","r","a","i","s","e","d"," ","v","a","l","u","e">>)>>,
                      <<Lit(<<"v","a","l","u","a","t","i","o","n">>)>>>>, CapMoney), 0),
      Entry("annual_gross_income", "_find_pattern_with_source",
            Pattern(<<<<Lit(<<"g","r","o","s","s"," ","i","n","c","o","m","e">>)>>,
                      <<Lit(<<"a","n","n","u","a","l"," ","r","e","v","e","n","u","e">>)>>>>, CapMoney), 0),
      Entry("operating_expenses", "_find_pattern_with_source",
            Pattern(<<<<Lit(<<"o","p","e","r","a","t","i","n","g"," ","e","x","p","e","n","s","e","s">>)>>,
                      <<Lit(<<"o","p","e","x">>)>>>>, CapMoney), 0),
      Entry("debt_service", "_find_pattern_with_source",
            Pattern(<<<<Lit(<<"d","e","b","t"," ","s","e","r","v","i","c","e">>)>>,
                      <<Lit(<<"a","n","n","u","a","l"," ","d","e","b","t"," ","s","e","r","v","i","c","e">>)>>>>, CapMoney), 0),
      Entry("dscr", "_find_pattern_with_source",
            Pattern(<<<<Lit(<<"d","s","c","r">>)>>,
                      <<Lit(<<"d","e","b","t"," ","s","e","r","v","i","c","e"," ","c","o","v","e","r","a","g","e"," ","r","a","t","i","o">>)>>>>, CapDigitsDot), 0),
      Entry("irr", "_find_pattern_with_source",
            Pattern(<<<<Lit(<<"i","r","r">>)>>,
                      <<Lit(<<"i","n","t","e","r","n","a","l"," ","r","a","t","e"," ","o","f"," ","r","e","t","u","r","n">>)>>>>, CapRateOptPct), 0),
      Entry("project_cost", "_find_pattern_with_source",
            Pattern(<<<<Lit(<<"t","o","t","a","l"," ","p","r","o","j","e","c","t"," ","c","o","s","t">>)>>,
                      <<Lit(<<"p","r","o","j","e","c","t"," ","c","o","s","t">>)>>,
                      <<Lit(<<"t","o","t","a","l"," ","c","o","s","t">>)>>>>, CapMoney), 0),
      Entry("expected_exit_valuation", "_find_pattern_with_source",
            Pattern(<<<<Lit(<<"e","x","p","e","c","t","e","d"," ","e","x","i","t"," ","v","a","l","u","a","t","i","o","n">>)>>,
                      <<Lit(<<"e","x","i","t"," ","v","a","l","u","a","t","i","o","n">>)>>,
                      <<Lit(<<"t","e","r","m","i","n","a","l"," ","v","a","l","u","e">>)>>>>, CapMoney), 0),
      Entry("expected_rents", "", <<>>, 0)>>

LoanDetailsEntries ==
    <<Entry("loan_amount", "_find_pattern_with_source",
            Pattern(<<<<Lit(<<"l","o","a","n"," ","a","m","o","u","n","t">>)>>,
                      <<Lit(<<"c","r","e","d","i","t"," ","f","a","c","i","l","i","t","y">>)>>>>, CapMoney), 0),
      Entry("interest_rate", "_find_pattern_with_source",
            Pattern(<<<<Lit(<<"i","n","t","e","r","e","s","t"," ","r","a","t","e">>)>>,
                      <<Lit(<<"r","a","t","e">>)>>>>, CapRateOptPct), 0),
      Entry("loan_term_years", "_find_pattern_with_source",
            Pattern(<<<<Lit(<<"l","o","a","n"," ","t","e","r","m">>)>>,
                      <<Lit(<<"a","m","o","r","t","i","z","a","t","i","o","n"," ","p","e","r","i","o","d">>)>>>>, CapTerm), 0),
      Entry("loan_type", "_find_pattern_with_source",
            Pattern(<<<<Lit(<<"l","o","a","n"," ","t","y","p","e">>)>>,
                      <<Lit(<<"f","a","c","i","l","i","t","y"," ","t","y","p","e">>)>>>>, CapRestOfLine), 0),
      Entry("lender", "_find_pattern_with_source",
            Pattern(<<<<Lit(<<"l","e","n","d","e","r">>)>>,
                      <<Lit(<<"b","a","n","k">>)>>,
                      <<Lit(<<"f","i","n","a","n","c","i","a","l"," ","i","n","s","t","i","t","u","t","i","o","n">>)>>>>, CapRestOfLine), 0),
      Entry("maturity_date", "_find_pattern_with_source",
            Pattern(<<<<Lit(<<"m","a","t","u","r","i","t","y"," ","d","a","t","e">>)>>,
                      <<Lit(<<"l","o","a","n"," ","m","a","t","u","r","i","t","y">>)>>>>, CapRestOfLine), 0),
      Entry("ltv", "_find_pattern_with_source",
            Pattern(<<<<Lit(<<"l","t","v">>)>>,
                      <<Lit(<<"l","o","a","n"," ","t","o"," ","v","a","l","u","e">>)>>>>, CapRateOptPct), 0)>>

TenantInformationEntries ==
    <<Entry("major_tenants", "_find_multiple_patterns_with_citations",
            Pattern(<<<<Lit(<<"t","e","n","a","n","t">>)>>,
                      <<Lit(<<"a","n","c","h","o","r">>)>>,
                      <<Lit(<<"m","a","j","o","r"," ","t","e","n","a","n","t">>)>>>>, CapRestOfLine), 5),
      Entry("lease_terms", "_find_pattern_with_citation",
            Pattern(<<<<Lit(<<"l","e","a","s","e"," ","t","e","r","m">>)>>,
                      <<Lit(<<"r","e","m","a","i","n","i","n","g"," ","t","e","r","m">>)>>>>, CapRestOfLine), 0),
      Entry("tenant_quality", "_find_pattern_with_citation",
            Pattern(<<<<Lit(<<"t","e","n","a","n","t"," ","q","u","a","l","i","t","y">>)>>,
                      <<Lit(<<"c","r","e","d","i","t"," ","q","u","a","l","i","t","y">>)>>>>, CapRestOfLine), 0)>>

MarketAnalysisEntries ==
    <<Entry("market", "_find_pattern_with_source",
            Pattern(<<<<Lit(<<"m","a","r","k","e","t">>)>>,
                      <<Lit(<<"m","a","r","k","e","t"," ","a","n","a","l","y","s","i","s">>)>>,
                      <<Lit(<<"m","s","a">>)>>>>, CapRestOfLine), 0),
      Entry("submarket", "_find_pattern_with_source",
            Pattern(<<<<Lit(<<"s","u","b","m","a","r","k","e","t">>)>>,
                      <<Lit(<<"s","u","b","-","m","a","r","k","e","t">>)>>>>, CapRestOfLine), 0),
      Entry("comparable_properties", "_find_multiple_patterns_with_sources",
            Pattern(<<<<Lit(<<"c","o","m","p","a","r","a","b","l","e">>)>>,
                      <<Lit(<<"c","o","m","p">>)>>,
                      <<Lit(<<"s","i","m","i","l","a","r"," ","p","r","o","p","e","r","t","i","e","s">>)>>>>, CapRestOfLine), 5),
      Entry("market_trends", "_find_multiple_patterns_with_sources",
            Pattern(<<<<Lit(<<"m","a","r","k","e","t"," ","t","r","e","n","d">>)>>,
                      <<Lit(<<"t","r","e","n","d">>)>>>>, CapRestOfLine), 5)>>

RiskAssessmentEntries ==
    <<Entry("identified_risks", "_find_multiple_patterns_with_citations",
            Pattern(<<<<Lit(<<"r","i","s","k">>)>>,
                      <<Lit(<<"r","i","s","k"," ","f","a","c","t","o","r">>)>>,
                      <<Lit(<<"c","o","n","c","e","r","n">>)>>>>, CapRestOfLine), 5),
      Entry("mitigation_strategies", "_find_multiple_patterns_with_citations",
            Pattern(<<<<Lit(<<"m","i","t","i","g","a","t","i","o","n">>)>>,
                      <<Lit(<<"m","i","t","i","g","a","t","i","o","n"," ","s","t","r","a","t","e","g","y">>)>>>>, CapRestOfLine), 5)>>

_extract_property_details_with_citations(text) ==
    GroupDict(text, PropertyDetailsEntries)

_extract_financial_metrics_with_citations(text) ==
    GroupDict(text, FinancialMetricsEntries)

_extract_loan_details_with_citations(text) ==
    GroupDict(text, LoanDetailsEntries)

_extract_market_analysis_with_citations(text) ==
    GroupDict(text, MarketAnalysisEntries)

\* The extraction_metadata block both strategies start from.
EmptyMetadata ==
    Dict(<<KV("confidence_score", PyFloat(0)),
           KV("missing_fields", List(<<>>)),
           KV("fields_with_citations", PyInt(0)),
           KV("fields_without_citations", PyInt(0)),
           KV("citation_coverage_percent", PyFloat(0))>>)

_extract_metrics_regex(text) ==
    Dict(<<KV("property_details", _extract_property_details_with_citations(text)),
           KV("financial_metrics", _extract_financial_metrics_with_citations(text)),
           KV("loan_details", _extract_loan_details_with_citations(text)),
           KV("tenant_information", GroupDict(text, TenantInformationEntries)),
           KV("market_analysis", _extract_market_analysis_with_citations(text)),
           KV("risk_assessment", GroupDict(text, RiskAssessmentEntries)),
           KV("extraction_metadata", EmptyMetadata)>>)

(***************************************************************************)
(* ModelExtractionStrategy and CompletenessScorer (openai_extractor.py).    *)
(***************************************************************************)

\* The text put in the place of the removed middle of a long document.
TruncationMarker ==
    <<"\n",".",".",".","[","d","o","c","u","m","e","n","t"," ","c","o","n",
      "t","e","n","t"," ","t","r","u","n","c","a","t","e","d","]",".",".",
      ".","\n">>

\* The character budget of the text sent to the service.
MaxChars == 16000

\* _prepare_text keeping everything after the first half of the budget
\* instead of the last half of the budget.
_prepare_text_rest(text, max_chars) ==
    IF Len(text) > max_chars
    THEN LET mid_point == max_chars \div 2
         IN Slice(text, 0, mid_point) \o TruncationMarker
            \o Slice(text, mid_point, Len(text))
    ELSE text

\* _prepare_text: text[:mid_point] + marker + text[-mid_point:]
_prepare_text(text, max_chars) ==
    IF Len(text) > max_chars
    THEN LET mid_point == max_chars \div 2
         IN Slice(text, 0, mid_point) \o TruncationMarker
            \o Slice(text, 0 - mid_point, Len(text))
    ELSE text

_get_empty_response ==
    Dict(<<KV("property_details",
              Dict(<<KV("property_address", NullField),
                     KV("property_type", NullField),
                     KV("square_footage", NullField),
                     KV("acres", NullField),
                     KV("land_square_feet", NullField),
                     KV("gross_building_area", NullField),
                     KV("net_rentable_area", NullField),
                     KV("year_built", NullField),
                     KV("units", NullField),
                     KV("occupancy_rate", NullField)>>)),
           KV("financial_metrics",
              Dict(<<KV("noi_annual", NullField),
                     KV("stabilized_noi", NullField),
                     KV("cap_rate", NullField),
                     KV("purchase_price", NullField),
                     KV("appraised_value", NullField),
                     KV("annual_gross_income", NullField),
                     KV("operating_expenses", NullField),
                     KV("debt_service", NullField),
                     KV("dscr", NullField),
                     KV("irr", NullField),
                     KV("project_cost", NullField),
                     KV("expected_exit_valuation", NullField),
                     KV("expected_rents", List(<<>>))>>)),
           KV("loan_details",
              Dict(<<KV("loan_amount", NullField),
                     KV("interest_rate", NullField),
                     KV("loan_term_years", NullField),
                     KV("loan_type", NullField),
                     KV("lender", NullField),
                     KV("maturity_date", NullField),
                     KV("ltv", NullField)>>)),
           KV("tenant_information",
              Dict(<<KV("major_tenants", List(<<>>)),
                     KV("lease_terms", NullField),
                     KV("tenant_quality", NullField)>>)),
           KV("market_analysis",
              Dict(<<KV("market", NullField),
                     KV("submarket", NullField),
                     KV("comparable_properties", List(<<>>)),
                     KV("market_trends", List(<<>>))>>)),
           KV("risk_assessment",
              Dict(<<KV("identified_risks", List(<<>>)),
                     KV("mitigation_strategies", List(<<>>))>>)),
           KV("extraction_metadata", EmptyMetadata)>>)

_count_total_fields == 38

\* The sum of the numbers of a sequence.
RECURSIVE Sum(_)
Sum(ns) == IF ns = <<>> THEN 0 ELSE Head(ns) + Sum(Tail(ns))

\* for item in value: if item: count += 1
CountTruthy(items) == Cardinality({i \in 1..Len(items) : Truthy(items[i])})

\* The nested count_fields of _count_filled_fields.
RECURSIVE count_fields(_)
count_fields(obj) ==
    IF obj.t = "dict"
    THEN Sum([i \in 1..Len(obj.d) |->
            LET key == obj.d[i].k
                value == obj.d[i].v
            IN IF key \in {"source_text", "unit"} THEN 0
               ELSE IF value.t = "none" THEN 0
               ELSE IF value.t = "dict"
                    THEN IF HasKey(value, "value")
                         THEN IF Get(value, "value").t # "none" THEN 1 ELSE 0
                         ELSE count_fields(value)
               ELSE IF value.t = "list" THEN CountTruthy(value.l)
               ELSE 1])
    ELSE IF obj.t = "list" THEN CountTruthy(obj.l)
    ELSE 0

_count_filled_fields(data) == count_fields(data)

\* Whether a list item counts as cited: a dict with a non-null source_text
\* and a truthy value under some key other than source_text and unit.
ItemCited(item) ==
    /\ item.t = "dict"
    /\ HasKey(item, "source_text")
    /\ Get(item, "source_text").t # "none"
    /\ \E j \in 1..Len(item.d) :
          /\ item.d[j].k \notin {"source_text", "unit"}
          /\ item.d[j].v.t # "none"
          /\ Truthy(item.d[j].v)

\* The nested count_citations of _count_fields_with_citations.
RECURSIVE count_citations(_)
count_citations(obj) ==
    IF obj.t = "dict"
    THEN Sum([i \in 1..Len(obj.d) |->
            LET value == obj.d[i].v
            IN IF value.t = "dict"
               THEN IF HasKey(value, "value") /\ HasKey(value, "source_text")
                    THEN IF /\ Get(value, "value").t # "none"
                            /\ Get(value, "source_text").t # "none"
                         THEN 1
                         ELSE 0
                    ELSE count_citations(value)
               ELSE IF value.t = "list"
                    THEN Cardinality({j \in 1..Len(value.l) : ItemCited(value.l[j])})
               ELSE 0])
    ELSE 0

_count_fields_with_citations(data) == count_citations(data)

\* Concatenation of a sequence of sequences.
RECURSIVE Flatten(_)
Flatten(ss) == IF ss = <<>> THEN <<>> ELSE Head(ss) \o Flatten(Tail(ss))

\* The nested check_fields of _identify_missing_fields; a field path is the
\* sequence of its keys (the dotted path), prefix is the path of obj.
RECURSIVE check_fields(_, _)
check_fields(obj, prefix) ==
    Flatten([i \in 1..Len(obj.d) |->
        LET key == obj.d[i].k
            value == obj.d[i].v
            field_path == Append(prefix, key)
        IN IF value.t = "dict"
           THEN IF key \in {"source_text", "unit"}
                THEN <<>>
                ELSE check_fields(value, field_path)
           ELSE IF value.t = "list"
                THEN IF value.l = <<>> THEN <<Str(field_path)>> ELSE <<>>
           ELSE IF value.t = "none" THEN <<Str(field_path)>>
           ELSE <<>>])

_identify_missing_fields(data) == List(check_fields(data, <<>>))

\* round(num / den * 100, 2) in hundredths: the nearest integer to
\* num * 10000 / den, a tie going to the even one.
RoundPercent(num, den) ==
    LET q == (num * 10000) \div den
        r == (num * 10000) % den
    IN IF 2 * r < den THEN q
       ELSE IF 2 * r > den THEN q + 1
       ELSE IF q % 2 = 0 THEN q ELSE q + 1

\* result['extraction_metadata'][key] = value
SetMetadata(result, key, value) ==
    Put(result, "extraction_metadata",
        Put(Get(result, "extraction_metadata"), key, value))

\* The scoring part of extract_with_confidence, on the result of
\* extract_structured_data.
ScoreResult(result) ==
    LET total_fields == _count_total_fields
        filled_fields == _count_filled_fields(result)
        fields_with_citations == _count_fields_with_citations(result)
        confidence == IF total_fields > 0
                      THEN RoundPercent(filled_fields, total_fields)
                      ELSE 0
        citation_coverage == IF filled_fields > 0
                             THEN RoundPercent(fields_with_citations, filled_fields)
                             ELSE 0
        r1 == SetMetadata(result, "confidence_score", PyFloat(confidence))
        r2 == SetMetadata(r1, "missing_fields", _identify_missing_fields(r1))
        r3 == SetMetadata(r2, "fields_with_citations", PyInt(fields_with_citations))
        r4 == SetMetadata(r3, "fields_without_citations",
                          PyInt(filled_fields - fields_with_citations))
    IN SetMetadata(r4, "citation_coverage_percent", PyFloat(citation_coverage))

\* IsBlank without the test of the stripped text.
IsBlank_not_stripped(text) == text = <<>>

\* if not text or len(text.strip()) == 0
IsBlank(text) == text = <<>> \/ Len(strip(text)) = 0

(***************************************************************************)
(* Documents.  A document's text is a sequence of at most MaxLines lines,   *)
(* each one of SampleLines, joined by newlines.                             *)
(***************************************************************************)
MaxLines == 2

SampleLines ==
    <<<<"C","a","p"," ","R","a","t","e",":"," ","6",".","5","%">>,
      <<"T","e","n","a","n","t",":"," ","A","c","m","e">>,
      <<"L","o","a","n"," ","T","y","p","e",":"," ","F","i","x","e","d"," ">>,
      <<"L","e","n","d","e","r",":"," "," ">>,
      <<"E","x","e","c","u","t","i","v","e"," ","S","u","m","m","a","r","y">>,
      <<"N","e","t"," ","O","p","e","r","a","t","i","n","g"," ","I","n","c","o","m","e"," ","(","N","O","I",")",":"," ","$","2",",","5","0","0",",","0","0","0">>>>

RECURSIVE JoinLines(_)
JoinLines(ls) ==
    IF ls = <<>> THEN <<>>
    ELSE IF Len(ls) = 1 THEN Head(ls)
    ELSE Head(ls) \o <<"\n">> \o JoinLines(Tail(ls))

Texts ==
    UNION {{JoinLines([i \in 1..n |-> SampleLines[f[i]]]) :
              f \in [1..n -> 1..Len(SampleLines)]} : n \in 0..MaxLines}

(***************************************************************************)
(* The external model service: a black box that fails or returns a          *)
(* schema-shaped value.  ModelResponses are values CRE_EXTRACTION_SCHEMA    *)
(* admits: the canonical empty record with cap_rate, major_tenants and the  *)
(* model's own extraction_metadata.missing_fields varied.                   *)
(***************************************************************************)
SetField(record, group, field, value) ==
    Put(record, group, Put(Get(record, group), field, value))

CapRateText == <<"C","a","p"," ","R","a","t","e",":"," ","6",".","5","%">>
TenantText == <<"T","e","n","a","n","t",":"," ","A","c","m","e">>

CapRateResponses ==
    {NullField,
     FieldValue(PyFloat(650), Str(<<"%">>), Str(CapRateText)),
     FieldValue(PyFloat(650), None, None),
     FieldValue(None, None, Str(CapRateText))}

MajorTenantsResponses ==
    {List(<<>>),
     List(<<Dict(<<KV("name", Str(<<"A","c","m","e">>)),
                   KV("source_text", Str(TenantText))>>)>>),
     List(<<Dict(<<KV("name", Str(<<"A","c","m","e">>)),
                   KV("source_text", None)>>)>>)}

MissingFieldsResponses ==
    {List(<<>>), List(<<Str(<<"loan_details", "ltv">>)>>)}

ModelResponses ==
    {SetField(SetField(SetField(_get_empty_response,
                                "financial_metrics", "cap_rate", c),
                       "tenant_information", "major_tenants", t),
              "extraction_metadata", "missing_fields", m) :
        c \in CapRateResponses, t \in MajorTenantsResponses,
        m \in MissingFieldsResponses}

\* The ways the model attempt of extract_all fails: before any request
\* (the import or the constructor), in the request (APIError), in json.loads
\* (JSONDecodeError), or in the scoring of a response that lacks
\* extraction_metadata (KeyError).
FailuresBeforeRequest == {"ImportError"}
FailuresAfterRequest == {"APIError", "JSONDecodeError", "KeyError"}

(***************************************************************************)
(* State.                                                                   *)
(***************************************************************************)
VARIABLES
    USE_OPENAI_EXTRACTION,  \* Config.USE_OPENAI_EXTRACTION
    OPENAI_API_KEY,         \* Config.OPENAI_API_KEY (a string, "" when unset)
    ENABLE_FALLBACK,        \* Config.ENABLE_FALLBACK
    pc,                     \* "idle", "constructed", "returned", "raised";
                            \* "cited" after a call of the citation extractor
    document,               \* the text parser.extract_text() gives
    use_openai,             \* DataExtractor.use_openai
    extracted_metrics,      \* DataExtractor.extracted_metrics
    extraction_method,      \* file_info.extraction_method of the result
    raised,                 \* the exception extract_all raised, or "none"
    model_failure,          \* the failure of the model attempt, or "none"
    api_requests,           \* the texts sent to the model service, in order
    model_response,         \* what extract_structured_data returned, or None
    regex_runs,             \* the number of calls of _extract_metrics_regex
    faults,                 \* the catalog keys whose call raises in its try block
    files,                  \* request.files.getlist('files') of a batch upload
    results,                \* the results list of batch_upload
    errors,                 \* the errors list of batch_upload
    uploads,                \* the files of the uploads folder: path and content
    requests                \* the upload_file requests being handled

vars ==
    <<USE_OPENAI_EXTRACTION, OPENAI_API_KEY, ENABLE_FALLBACK, pc, document,
      use_openai, extracted_metrics, extraction_method, raised,
      model_failure, api_requests, model_response, regex_runs, faults, files,
      results, errors, uploads, requests>>

config == <<USE_OPENAI_EXTRACTION, OPENAI_API_KEY, ENABLE_FALLBACK>>

batch == <<files, results, errors>>

upload == <<uploads, requests>>

\* validate_openai_config without the test of the key.
validate_openai_config_always == TRUE

\* Config.validate_openai_config
validate_openai_config == OPENAI_API_KEY # ""

Init ==
    /\ USE_OPENAI_EXTRACTION \in BOOLEAN
    /\ OPENAI_API_KEY \in {"", "sk-key"}
    /\ ENABLE_FALLBACK \in BOOLEAN
    /\ pc = "idle"
    /\ document = <<>>
    /\ use_openai = FALSE
    /\ extracted_metrics = Dict(<<>>)
    /\ extraction_method = "none"
    /\ raised = "none"
    /\ model_failure = "none"
    /\ api_requests = <<>>
    /\ model_response = None
    /\ regex_runs = 0
    /\ faults = {}
    /\ files = <<>>
    /\ results = <<>>
    /\ errors = <<>>
    /\ uploads = <<>>
    /\ requests = <<>>

\* DataExtractor.__init__ for an uploaded document; arg is the use_openai
\* argument as the routes pass it: "none" (None), "true" or "false".
DataExtractor(text, arg) ==
    /\ pc = "idle"
    /\ pc' = "constructed"
    /\ document' = text
    /\ use_openai' = IF arg # "none" THEN arg = "true" ELSE USE_OPENAI_EXTRACTION
    /\ extracted_metrics' = Dict(<<>>)
    /\ extraction_method' = "none"
    /\ raised' = "none"
    /\ model_failure' = "none"
    /\ api_requests' = <<>>
    /\ model_response' = None
    /\ regex_runs' = 0
    /\ UNCHANGED config
    /\ UNCHANGED <<faults, batch, upload>>

\* OpenAIExtractor.extract_structured_data without its failures: the
\* canonical empty record for a blank text, else the response to a request.
extract_structured_data(text, response) ==
    IF IsBlank(text) THEN _get_empty_response ELSE response

\* The requests extract_structured_data makes for a text.
RequestsFor(text) ==
    IF IsBlank(text) THEN <<>> ELSE <<_prepare_text(text, MaxChars)>>

\* OpenAIExtractor.extract_with_confidence
extract_with_confidence(text, response) ==
    ScoreResult(extract_structured_data(text, response))

\* extract_all_openai with the regex values written over the model's record.
extract_all_openai_overwritten ==
    /\ pc = "constructed"
    /\ use_openai /\ OPENAI_API_KEY # ""
    /\ extracted_metrics' = _extract_metrics_regex(document)
    /\ regex_runs' = regex_runs + 1
    /\ api_requests' = api_requests \o RequestsFor(document)
    /\ extraction_method' = "openai"
    /\ pc' = "returned"
    /\ \E response \in ModelResponses :
          model_response' = extract_structured_data(document, response)
    /\ UNCHANGED <<config, document, use_openai, raised, model_failure>>
    /\ UNCHANGED <<faults, batch, upload>>

\* extract_all, model strategy attempted and successful (lines 38-43).
extract_all_openai ==
    /\ pc = "constructed"
    /\ use_openai /\ validate_openai_config
    /\ \E response \in ModelResponses :
          /\ model_response' = extract_structured_data(document, response)
          /\ extracted_metrics' = extract_with_confidence(document, response)
    /\ api_requests' = api_requests \o RequestsFor(document)
    /\ extraction_method' = "openai"
    /\ pc' = "returned"
    /\ UNCHANGED <<config, document, use_openai, raised, model_failure, regex_runs>>
    /\ UNCHANGED <<faults, batch, upload>>

\* The failures of the model attempt the text allows, with the requests
\* made before each.
AttemptFailures(text) ==
    {[kind |-> k, requests |-> <<>>] : k \in FailuresBeforeRequest}
    \cup (IF IsBlank(text) THEN {}
          ELSE {[kind |-> k, requests |-> RequestsFor(text)] :
                   k \in FailuresAfterRequest})

\* extract_all_fallback returning the canonical empty record.
extract_all_fallback_empty ==
    /\ pc = "constructed"
    /\ use_openai /\ OPENAI_API_KEY # ""
    /\ ENABLE_FALLBACK
    /\ extracted_metrics' = _get_empty_response
    /\ regex_runs' = regex_runs + 1
    /\ \E f \in AttemptFailures(document) :
          /\ model_failure' = f.kind
          /\ api_requests' = api_requests \o f.requests
    /\ extraction_method' = "regex_fallback"
    /\ pc' = "returned"
    /\ UNCHANGED <<config, document, use_openai, raised, model_response>>
    /\ UNCHANGED <<faults, batch, upload>>

\* extract_all, model strategy attempted and failed, fallback enabled
\* (lines 44-48).
extract_all_fallback ==
    /\ pc = "constructed"
    /\ use_openai /\ validate_openai_config
    /\ ENABLE_FALLBACK
    /\ extracted_metrics' = _extract_metrics_regex(document)
    /\ regex_runs' = regex_runs + 1
    /\ \E f \in AttemptFailures(document) :
          /\ model_failure' = f.kind
          /\ api_requests' = api_requests \o f.requests
    /\ extraction_method' = "regex_fallback"
    /\ pc' = "returned"
    /\ UNCHANGED <<config, document, use_openai, raised, model_response>>
    /\ UNCHANGED <<faults, batch, upload>>

\* extract_all_raise falling back although fallback is disabled.
extract_all_raise_swallowed ==
    /\ pc = "constructed"
    /\ use_openai /\ OPENAI_API_KEY # ""
    /\ ~ENABLE_FALLBACK
    /\ extracted_metrics' = _extract_metrics_regex(document)
    /\ regex_runs' = regex_runs + 1
    /\ \E f \in AttemptFailures(document) :
          /\ model_failure' = f.kind
          /\ api_requests' = api_requests \o f.requests
    /\ extraction_method' = "regex_fallback"
    /\ pc' = "returned"
    /\ UNCHANGED <<config, document, use_openai, raised, model_response>>
    /\ UNCHANGED <<faults, batch, upload>>

\* extract_all, model strategy attempted and failed, fallback disabled
\* (lines 49-50): the exception leaves extract_all.
extract_all_raise ==
    /\ pc = "constructed"
    /\ use_openai /\ validate_openai_config
    /\ ~ENABLE_FALLBACK
    /\ \E f \in AttemptFailures(document) :
          /\ model_failure' = f.kind
          /\ api_requests' = api_requests \o f.requests
    /\ raised' = "OpenAI extraction failed and fallback disabled"
    /\ pc' = "raised"
    /\ UNCHANGED <<config, document, use_openai, extracted_metrics,
                   extraction_method, model_response, regex_runs>>
    /\ UNCHANGED <<faults, batch, upload>>

\* extract_all, regex strategy only (lines 51-54).
extract_all_regex ==
    /\ pc = "constructed"
    /\ ~(use_openai /\ validate_openai_config)
    /\ extracted_metrics' = _extract_metrics_regex(document)
    /\ regex_runs' = regex_runs + 1
    /\ extraction_method' = "regex"
    /\ pc' = "returned"
    /\ UNCHANGED <<config, document, use_openai, raised, model_failure,
                   api_requests, model_response>>
    /\ UNCHANGED <<faults, batch, upload>>

\* DataExtractor.extract_all
extract_all ==
    \/ extract_all_openai
    \/ extract_all_fallback
    \/ extract_all_raise
    \/ extract_all_regex

Next ==
    \/ \E text \in Texts, arg \in {"none", "true", "false"} :
          DataExtractor(text, arg)
    \/ extract_all

Spec == Init /\ [][Next]_vars

(***************************************************************************)
(* The citation extractor on its own: the document is drawn from the texts *)
(* above, alone or with a line longer than the window before and after,    *)
(* and one entry of the catalog is extracted from it.  extracted_metrics    *)
(* then holds the single entry {key: result}.                               *)
(***************************************************************************)
Filler ==
    <<"T","h","i","s"," ","m","e","m","o","r","a","n","d","u","m"," ","i","s",
      " ","c","o","n","f","i","d","e","n","t","i","a","l"," ","a","n","d"," ",
      "i","n","t","e","n","d","e","d"," ","f","o","r"," ","i","n","v","e","s",
      "t","o","r","s"," ","o","n","l","y">>

CiteTexts ==
    {before \o t \o after :
        t \in Texts \ {<<>>},
        before \in {<<>>, Filler \o <<"\n">>},
        after \in {<<>>, <<"\n">> \o Filler}}

\* The entries of the catalog, in the order of the record.
AllEntries ==
    PropertyDetailsEntries \o FinancialMetricsEntries \o LoanDetailsEntries
    \o TenantInformationEntries \o MarketAnalysisEntries
    \o RiskAssessmentEntries

SingleCalls == {"_find_pattern_with_source", "_find_pattern_with_citation"}
ListCalls ==
    {"_find_multiple_patterns_with_sources",
     "_find_multiple_patterns_with_citations"}

InitCite ==
    /\ USE_OPENAI_EXTRACTION = FALSE
    /\ OPENAI_API_KEY = ""
    /\ ENABLE_FALLBACK = TRUE
    /\ pc = "idle"
    /\ document \in CiteTexts
    /\ use_openai = FALSE
    /\ extracted_metrics = Dict(<<>>)
    /\ extraction_method = "none"
    /\ raised = "none"
    /\ model_failure = "none"
    /\ api_requests = <<>>
    /\ model_response = None
    /\ regex_runs = 0
    /\ faults = {}
    /\ files = <<>>
    /\ results = <<>>
    /\ errors = <<>>
    /\ uploads = <<>>
    /\ requests = <<>>

\* One call of _find_pattern_with_citation, as a group extractor makes it.
find_pattern_with_citation ==
    /\ pc = "idle"
    /\ \E j \in 1..Len(AllEntries) :
          /\ AllEntries[j].call \in SingleCalls
          /\ extracted_metrics' =
                Dict(<<KV(AllEntries[j].key,
                          _find_pattern_with_citation(
                              document, AllEntries[j].pattern, AllEntries[j].n))>>)
    /\ pc' = "cited"
    /\ UNCHANGED <<config, document, use_openai, extraction_method, raised,
                   model_failure, api_requests, model_response, regex_runs>>
    /\ UNCHANGED <<faults, batch, upload>>

\* One call of _find_multiple_patterns_with_citations.
find_multiple_patterns_with_citations ==
    /\ pc = "idle"
    /\ \E j \in 1..Len(AllEntries) :
          /\ AllEntries[j].call \in ListCalls
          /\ extracted_metrics' =
                Dict(<<KV(AllEntries[j].key,
                          _find_multiple_patterns_with_citations(
                              document, AllEntries[j].pattern, AllEntries[j].n))>>)
    /\ pc' = "cited"
    /\ UNCHANGED <<config, document, use_openai, extraction_method, raised,
                   model_failure, api_requests, model_response, regex_runs>>
    /\ UNCHANGED <<faults, batch, upload>>

NextCite ==
    \/ find_pattern_with_citation
    \/ find_multiple_patterns_with_citations

SpecCite == InitCite /\ [][NextCite]_vars

(***************************************************************************)
(* Reading a record.                                                        *)
(***************************************************************************)
GroupNames ==
    {"property_details", "financial_metrics", "loan_details",
     "tenant_information", "market_analysis", "risk_assessment"}

\* record[group][key]
Field(record, group, key) == Get(Get(record, group), key)

\* record["extraction_metadata"][key]
Metadata(record, key) == Field(record, "extraction_metadata", key)

\* The six groups of a record, without its extraction_metadata.
Content(record) ==
    Dict(SelectSeq(record.d, LAMBDA e : e.k \in GroupNames))

\* The fields of a record: the values under the keys of its groups.
Leaves(record) ==
    UNION {{Get(record, g).d[i].v : i \in 1..Len(Get(record, g).d)} :
              g \in GroupNames}

\* The number of filled fields of a record: FieldValues with a value, and
\* list entries.
FilledFields(record) == count_fields(Content(record))

\* The number of fields of a record that are a FieldValue without a value
\* or an empty list.
UnfilledFields(record) ==
    Sum([j \in 1..Len(Content(record).d) |->
            Cardinality({i \in 1..Len(Content(record).d[j].v.d) :
                ~Truthy(IF Content(record).d[j].v.d[i].v.t = "dict"
                        THEN Get(Content(record).d[j].v.d[i].v, "value")
                        ELSE Content(record).d[j].v.d[i].v)})])

\* Whether no pattern of the catalog matches anywhere in the text.
NoPatternMatches(text) ==
    \A j \in 1..Len(AllEntries) :
        AllEntries[j].call # "" =>
            finditer(text, AllEntries[j].pattern, 1) = <<>>

\* An attempt of the model strategy was made and failed.
AttemptFailed ==
    /\ pc \in {"returned", "raised"}
    /\ use_openai /\ OPENAI_API_KEY # ""
    /\ model_failure # "none"

(***************************************************************************)
(* The coordinator (Spec).                                                  *)
(***************************************************************************)

\* C1: when the model strategy is enabled and configured, its attempt
\* fails (for any failure) and fallback is enabled, extract_all returns a
\* result labelled "regex_fallback" whose record holds the values the regex
\* strategy derives from the same text: a text with "Cap Rate: 6.5%" gives
\* cap_rate the value "6.5", not null.
C1_FallbackReturnsRegexValues ==
    (AttemptFailed /\ ENABLE_FALLBACK) =>
        /\ pc = "returned"
        /\ extraction_method = "regex_fallback"
        /\ extracted_metrics = _extract_metrics_regex(document)
        /\ Contains(document, CapRateText) =>
              Get(Field(extracted_metrics, "financial_metrics", "cap_rate"),
                  "value") = Str(<<"6", ".", "5">>)

C1_Witness ==
    /\ AttemptFailed /\ ENABLE_FALLBACK
    /\ model_failure = "APIError"
    /\ Contains(document, CapRateText)
    /\ Get(Field(extracted_metrics, "financial_metrics", "cap_rate"),
           "value") # None

\* C2: when the model strategy is attempted and fails while fallback is
\* disabled, the failure leaves extract_all as an exception, the regex
\* strategy is not run, and no record and no strategy label are produced.
C2_FailurePropagatesWithoutFallback ==
    (AttemptFailed /\ ~ENABLE_FALLBACK) =>
        /\ pc = "raised"
        /\ raised # "none"
        /\ regex_runs = 0
        /\ extraction_method = "none"
        /\ extracted_metrics = Dict(<<>>)

C2_Witness ==
    /\ AttemptFailed /\ ~ENABLE_FALLBACK
    /\ pc = "raised"
    /\ model_failure = "JSONDecodeError"
    /\ Contains(document, CapRateText)

\* C3: the model strategy is attempted only when use_openai is true and a
\* key is configured; when use_openai is false, or true without a key,
\* extract_all runs the regex strategy only, sends nothing to the model
\* service, and labels the result "regex".
C3_RegexOnlyWithoutModelStrategy ==
    /\ (pc \in {"returned", "raised"} /\ (~use_openai \/ OPENAI_API_KEY = ""))
          => /\ pc = "returned"
             /\ extraction_method = "regex"
             /\ regex_runs = 1
             /\ api_requests = <<>>
             /\ model_failure = "none"
             /\ extracted_metrics = _extract_metrics_regex(document)
    /\ (api_requests # <<>> \/ model_failure # "none"
            \/ extraction_method = "openai")
          => (use_openai /\ OPENAI_API_KEY # "")

C3_Witness ==
    /\ pc = "returned"
    /\ use_openai /\ OPENAI_API_KEY = ""
    /\ extraction_method = "regex"
    /\ document # <<>>

\* The model strategy was attempted and succeeded.
AttemptSucceeded ==
    /\ pc = "returned"
    /\ use_openai /\ OPENAI_API_KEY # ""
    /\ model_failure = "none"

C5_CitationCountsSumToFilled ==
    pc = "returned" =>
        Metadata(extracted_metrics, "fields_with_citations").i
            + Metadata(extracted_metrics, "fields_without_citations").i
          = FilledFields(extracted_metrics)

\* C6: on every path (openai, regex, regex_fallback) the extraction_metadata
\* of the returned record is computed from the record's contents:
\* confidence_score is filled / total * 100, and missing_fields has one
\* entry for each null field and each empty list.
C6_MetadataRecomputedOnEveryPath ==
    pc = "returned" =>
        /\ Metadata(extracted_metrics, "confidence_score")
              = PyFloat(RoundPercent(FilledFields(extracted_metrics),
                                     _count_total_fields))
        /\ Len(Metadata(extracted_metrics, "missing_fields").l)
              = UnfilledFields(extracted_metrics)

\* C7: for every text in which no pattern of the catalog matches, the regex
\* strategy returns a record in which every FieldValue has null value and
\* null source_text, every list is empty, confidence_score is 0 and
\* citation_coverage_percent is 0.
C7_NoMatchGivesEmptyRecord ==
    (/\ pc = "returned"
     /\ extraction_method \in {"regex", "regex_fallback"}
     /\ NoPatternMatches(document)) =>
        /\ \A v \in Leaves(extracted_metrics) :
              \/ v = List(<<>>)
              \/ /\ v.t = "dict"
                 /\ Get(v, "value") = None
                 /\ Get(v, "source_text") = None
        /\ Metadata(extracted_metrics, "confidence_score") = PyFloat(0)
        /\ Metadata(extracted_metrics, "citation_coverage_percent") = PyFloat(0)

C7_Witness ==
    /\ pc = "returned"
    /\ extraction_method = "regex"
    /\ document # <<>>
    /\ NoPatternMatches(document)

\* C8: in every record returned by either strategy, a FieldValue has a
\* non-null source_text only if its value is non-null.
C8_CitationOnlyWithValue ==
    pc = "returned" =>
        \A v \in Leaves(extracted_metrics) :
            (v.t = "dict" /\ Get(v, "source_text") # None)
                => Get(v, "value") # None

(***************************************************************************)
(* The citation extractor (SpecCite).                                       *)
(***************************************************************************)

\* The entry extracted in a "cited" state, and what was returned for it.
CiteEntry ==
    AllEntries[CHOOSE j \in 1..Len(AllEntries) :
                  AllEntries[j].key = extracted_metrics.d[1].k]
CiteResult == extracted_metrics.d[1].v

\* match.group(0)
MatchText(text, m) == SubSeq(text, m.start, m.end - 1)

\* The matches of the entry's pattern in the document.
CiteMatches == finditer(document, CiteEntry.pattern, 1)

\* The matches the call looks at (matches[index], or matches[:limit]) ...
UsedMatches ==
    IF CiteEntry.call \in SingleCalls
    THEN Slice(CiteMatches, CiteEntry.n, CiteEntry.n + 1)
    ELSE Slice(CiteMatches, 0, CiteEntry.n)

\* ... and those of them with a value, for which a citation is produced.
RecordedMatches ==
    SelectSeq(UsedMatches, LAMBDA m : GroupValue(document, m) # <<>>)

\* The citations in the result, in order.
Citations ==
    IF CiteResult.t = "list"
    THEN [i \in 1..Len(CiteResult.l) |->
            Get(CiteResult.l[i], "source_text").s]
    ELSE IF Get(CiteResult, "source_text") = None
         THEN <<>>
         ELSE <<Get(CiteResult, "source_text").s>>

\* C9 (as the code has it): for every match for which a citation is
\* produced, at any position of the text, the source_text contains the
\* matched substring trimmed of its leading and trailing whitespace.
C9_CitationContainsTrimmedMatch ==
    pc = "cited" =>
        /\ Len(Citations) = Len(RecordedMatches)
        /\ \A i \in 1..Len(RecordedMatches) :
              Contains(Citations[i],
                       strip(MatchText(document, RecordedMatches[i])))

\* A citation of a match that ends the text with a whitespace character.
C9_Witness ==
    /\ pc = "cited"
    /\ \E i \in 1..Len(RecordedMatches) :
          /\ RecordedMatches[i].end - 1 = Len(document)
          /\ document[Len(document)] \in Whitespace
          /\ i <= Len(Citations)

\* C9 (as stated): for every match for which a citation is produced, the
\* source_text contains the whole matched substring, also after the window
\* is trimmed.
C9_CitationContainsWholeMatch ==
    pc = "cited" =>
        /\ Len(Citations) = Len(RecordedMatches)
        /\ \A i \in 1..Len(RecordedMatches) :
              Contains(Citations[i], MatchText(document, RecordedMatches[i]))

\* C10: for any match at any position, the window indices satisfy
\* 0 <= start <= end <= len(text), the citation is the trimmed text between
\* them (truncated at the text's ends, not padded or wrapped), its length is
\* at most the match's length + 2 * 50, and the call returns a value.
C10_WindowWithinText ==
    pc = "cited" =>
        /\ CiteResult.t \in {"dict", "list"}
        /\ \A i \in 1..Len(CiteMatches) :
              /\ 0 <= WindowStart(document, CiteMatches[i])
              /\ WindowStart(document, CiteMatches[i]) <= CiteMatches[i].start - 1
              /\ CiteMatches[i].end - 1 <= WindowEnd(document, CiteMatches[i])
              /\ WindowEnd(document, CiteMatches[i]) <= Len(document)
        /\ Len(Citations) = Len(RecordedMatches)
        /\ \A i \in 1..Len(RecordedMatches) :
              /\ Citations[i] =
                    strip(SubSeq(document,
                                 WindowStart(document, RecordedMatches[i]) + 1,
                                 WindowEnd(document, RecordedMatches[i])))
              /\ Len(Citations[i])
                    <= Len(MatchText(document, RecordedMatches[i])) + 2 * 50

\* A citation of a match less than 50 characters from the start of a text
\* that goes on for more than 50 characters after it.
C10_Witness ==
    /\ pc = "cited"
    /\ \E i \in 1..Len(RecordedMatches) :
          /\ i <= Len(Citations)
          /\ RecordedMatches[i].start - 1 < 50
          /\ RecordedMatches[i].start - 1 > 0
          /\ (RecordedMatches[i].end - 1) + 50 < Len(document)

(***************************************************************************)
(* The response schema (schemas.py).                                        *)
(***************************************************************************)

\* A property of a group that is a FieldValue: value, unit and source_text,
\* each of them nullable.
SchemaField(key) ==
    [key |-> key, kind |-> "field", label |-> "", maxItems |-> 0]

\* A property of a group that is an array of objects; label is the first
\* property of its items, next to their source_text.
SchemaList(key, label, maxItems) ==
    [key |-> key, kind |-> "list", label |-> label, maxItems |-> maxItems]

SchemaGroup(name, fields) == [name |-> name, fields |-> fields]

\* The six content groups of the schema, in declaration order; the seventh
\* property, extraction_metadata, is EmptyMetadata's five keys.
CRE_EXTRACTION_SCHEMA ==
    <<  SchemaGroup("property_details",
         <<SchemaField("property_address"), SchemaField("property_type"),
           SchemaField("square_footage"), SchemaField("acres"),
           SchemaField("land_square_feet"),
           SchemaField("gross_building_area"),
           SchemaField("net_rentable_area"), SchemaField("year_built"),
           SchemaField("units"), SchemaField("occupancy_rate")>>),
      SchemaGroup("financial_metrics",
         <<SchemaField("noi_annual"), SchemaField("stabilized_noi"),
           SchemaField("cap_rate"), SchemaField("purchase_price"),
           SchemaField("appraised_value"),
           SchemaField("annual_gross_income"),
           SchemaField("operating_expenses"), SchemaField("debt_service"),
           SchemaField("dscr"), SchemaField("irr"),
           SchemaField("project_cost"),
           SchemaField("expected_exit_valuation"),
           SchemaList("expected_rents", "type", 10)>>),
      SchemaGroup("loan_details",
         <<SchemaField("loan_amount"), SchemaField("interest_rate"),
           SchemaField("loan_term_years"), SchemaField("loan_type"),
           SchemaField("lender"), SchemaField("maturity_date"),
           SchemaField("ltv")>>),
      SchemaGroup("tenant_information",
         <<SchemaList("major_tenants", "name", 5),
           SchemaField("lease_terms"), SchemaField("tenant_quality")>>),
      SchemaGroup("market_analysis",
         <<SchemaField("market"), SchemaField("submarket"),
           SchemaList("comparable_properties", "property", 5),
           SchemaList("market_trends", "trend", 5)>>),
      SchemaGroup("risk_assessment",
         <<SchemaList("identified_risks", "risk", 5),
           SchemaList("mitigation_strategies", "strategy", 5)>>)>>

\* The number of FieldValue properties in the first n properties of a group.
FieldsAmong(fields, n) ==
    Cardinality({j \in 1..n : fields[j].kind = "field"})

\* The number of FieldValue properties declared before property i of group g.
FieldsBefore(g, i) ==
    Sum([h \in 1..(g - 1) |->
            FieldsAmong(CRE_EXTRACTION_SCHEMA[h].fields,
                        Len(CRE_EXTRACTION_SCHEMA[h].fields))])
    + FieldsAmong(CRE_EXTRACTION_SCHEMA[g].fields, i - 1)

\* The number of FieldValue properties of the schema.
SchemaFields == FieldsBefore(Len(CRE_EXTRACTION_SCHEMA) + 1, 1)

\* The number of fillable slots of the schema: its FieldValue properties and
\* its lists.
SchemaSlots ==
    Sum([g \in 1..Len(CRE_EXTRACTION_SCHEMA) |->
            Len(CRE_EXTRACTION_SCHEMA[g].fields)])

(***************************************************************************)
(* The scorer on records that conform to the schema (SpecScore).            *)
(***************************************************************************)

\* A source_text as the service gives it.
Quote == Str(<<"p", ".", "1">>)

\* The shapes of the sampled records: the first `filled` FieldValues in
\* declaration order have a value, `cited` says how many of those have a
\* source_text as well (2: all of them, 1: half of them, 0: none), `orphan` gives
\* the first unfilled FieldValue a source_text without a value, every list
\* has `items` entries (up to its maxItems), with a source_text if
\* `items_cited`, and `missing` is whether the service filled in
\* missing_fields itself.
SampleShapes ==
    [filled : 0..SchemaFields, cited : {0, 1, 2},
     orphan : BOOLEAN, items : {0, 1, 5, 10}, items_cited : BOOLEAN,
     missing : BOOLEAN]

\* The FieldValue of a sampled record that has n FieldValues before it.
SampleField(shape, n) ==
    IF n < shape.filled
    THEN FieldValue(PyInt(1), None,
                    IF n < (shape.filled * shape.cited) \div 2
                    THEN Quote ELSE None)
    ELSE IF n = shape.filled /\ shape.orphan
         THEN FieldValue(None, None, Quote)
         ELSE NullField

\* The list of a sampled record for a list property of the schema.
SampleList(shape, field) ==
    List([k \in 1..Min(shape.items, field.maxItems) |->
            Dict(<<KV(field.label, Str(<<"x">>)),
                   KV("source_text",
                      IF shape.items_cited THEN Quote ELSE None)>>)])

SampleGroup(shape, g) ==
    Dict([i \in 1..Len(CRE_EXTRACTION_SCHEMA[g].fields) |->
            KV(CRE_EXTRACTION_SCHEMA[g].fields[i].key,
               IF CRE_EXTRACTION_SCHEMA[g].fields[i].kind = "field"
               THEN SampleField(shape, FieldsBefore(g, i))
               ELSE SampleList(shape, CRE_EXTRACTION_SCHEMA[g].fields[i]))])

\* A record of the schema's shape: the six groups and the metadata as the
\* service sends it, before the scorer overwrites it.
SampleRecord(shape) ==
    Dict([g \in 1..Len(CRE_EXTRACTION_SCHEMA) |->
            KV(CRE_EXTRACTION_SCHEMA[g].name, SampleGroup(shape, g))]
         \o <<KV("extraction_metadata",
                 Put(EmptyMetadata, "missing_fields",
                     IF shape.missing
                     THEN List(<<Str(<<"loan_details", "lender">>)>>)
                     ELSE List(<<>>)))>>)

InitScore ==
    /\ USE_OPENAI_EXTRACTION = TRUE
    /\ OPENAI_API_KEY = "sk-key"
    /\ ENABLE_FALLBACK = TRUE
    /\ pc = "idle"
    /\ document = <<>>
    /\ use_openai = TRUE
    /\ extracted_metrics = Dict(<<>>)
    /\ extraction_method = "none"
    /\ raised = "none"
    /\ model_failure = "none"
    /\ api_requests = <<>>
    /\ model_response \in {SampleRecord(shape) : shape \in SampleShapes}
    /\ regex_runs = 0
    /\ faults = {}
    /\ files = <<>>
    /\ results = <<>>
    /\ errors = <<>>
    /\ uploads = <<>>
    /\ requests = <<>>

\* extract_with_confidence on a record the service returned: the scorer
\* overwrites the record's metadata.
score_result ==
    /\ pc = "idle"
    /\ extracted_metrics' = ScoreResult(model_response)
    /\ pc' = "scored"
    /\ UNCHANGED <<config, document, use_openai, extraction_method, raised,
                   model_failure, api_requests, model_response, regex_runs,
                   faults, batch, upload>>

SpecScore == InitScore /\ [][score_result]_vars

\* C11: for every record that conforms to the schema (its lists within
\* their maxItems), the confidence_score the scorer writes lies between 0
\* and 100.
C11_ConfidenceWithinPercentRange ==
    pc = "scored" =>
        /\ Metadata(extracted_metrics, "confidence_score").t = "float"
        /\ Metadata(extracted_metrics, "confidence_score").h >= 0
        /\ Metadata(extracted_metrics, "confidence_score").h <= 100 * 100

\* C12: the constant number of fillable fields the scorer divides by is the
\* number of slots the schema declares in its six groups, a FieldValue being
\* one slot and a list being one slot.
C12_TotalFillableMatchesSchema ==
    pc = "scored" => _count_total_fields = SchemaSlots

\* C13: the filled count of the scorer is the number of filled fields of
\* the six groups (FieldValues with a value and non-empty list entries),
\* nothing of extraction_metadata is counted, and confidence_score is that
\* count out of the number of fillable fields, as a percentage.
C13_FilledCountOverGroupsOnly ==
    pc = "scored" =>
        /\ _count_filled_fields(model_response) = FilledFields(model_response)
        /\ Metadata(extracted_metrics, "confidence_score") =
               PyFloat(RoundPercent(FilledFields(model_response),
                                    _count_total_fields))

\* The number of cited fields of a record: FieldValues with a value and a
\* source_text, and cited list entries, in the six groups.
CitedFields(record) == count_citations(Content(record))

\* C14: citation_coverage_percent is the cited fields as a percentage of the
\* filled fields, both counted over the fields of the six groups, and 0 when
\* nothing is filled; when every filled field and list entry has a
\* source_text it is 100.
C14_CoverageOverFilledFields ==
    pc = "scored" =>
        /\ Metadata(extracted_metrics, "citation_coverage_percent") =
               PyFloat(IF FilledFields(model_response) = 0 THEN 0
                       ELSE RoundPercent(CitedFields(model_response),
                                         FilledFields(model_response)))
        /\ (/\ FilledFields(model_response) > 0
            /\ CitedFields(model_response) = FilledFields(model_response))
           => Metadata(extracted_metrics, "citation_coverage_percent") =
                  PyFloat(100 * 100)

\* Whether a field of a group is missing: a FieldValue without a value or
\* an empty list.
LeafMissing(leaf) ==
    IF leaf.t = "dict" THEN Get(leaf, "value").t = "none"
    ELSE leaf.t = "list" /\ leaf.l = <<>>

\* The paths group.field of the missing fields of one group, in the order
\* of the group's keys.
MissingIn(group) ==
    [i \in 1..Len(SelectSeq(group.v.d, LAMBDA e : LeafMissing(e.v))) |->
        Str(<<group.k,
              SelectSeq(group.v.d, LAMBDA e : LeafMissing(e.v))[i].k>>)]

\* The paths of the missing fields of the six groups, in declaration order.
MissingPaths(record) ==
    Flatten([g \in 1..Len(Content(record).d) |->
                MissingIn(Content(record).d[g])])

\* C15: the missing_fields the scorer writes holds the path of every field
\* of the six groups that has a null value or an empty list, in declaration
\* order, and no path that ends in source_text or unit.
C15_MissingFieldsAreNullLeaves ==
    pc = "scored" =>
        /\ SelectSeq(Metadata(extracted_metrics, "missing_fields").l,
                     LAMBDA p : \E i \in 1..Len(MissingPaths(model_response)) :
                                    MissingPaths(model_response)[i] = p)
               = MissingPaths(model_response)
        /\ \A i \in 1..Len(Metadata(extracted_metrics, "missing_fields").l) :
               Metadata(extracted_metrics, "missing_fields").l[i].s[
                   Len(Metadata(extracted_metrics, "missing_fields").l[i].s)]
                   \notin {"source_text", "unit"}

(***************************************************************************)
(* The model strategy on its own (SpecModel): extract_structured_data on    *)
(* blank, short and long texts.                                             *)
(***************************************************************************)

\* The empty text and texts of whitespace only.
BlankTexts == {<<>>, <<" ">>, <<"\n", "\t", " ">>, <<" ", "\r", "\n", " ">>}

\* A text of n characters; its period does not divide half the budget, so
\* its ends differ from its middle.
LongText(n) ==
    [i \in 1..n |-> <<"a", "b", "c", "d", "e", "f", "g">>[(i % 7) + 1]]

\* Blank texts, short documents, and texts of lengths around the budget.
ModelTexts ==
    BlankTexts \cup Texts
    \cup {LongText(n) : n \in {MaxChars - 1, MaxChars, MaxChars + 1,
                                MaxChars + 2, 2 * MaxChars + 1}}

\* The failures inside the try block of extract_structured_data: of the
\* request (APIError), of json.loads (JSONDecodeError), or any other, such as
\* the TypeError of json.loads(None) for a response without content.
StructuredDataFailures == {"APIError", "JSONDecodeError", "TypeError"}

\* The exception the except clauses raise for a failure (lines 72-77); the
\* message ends with str(e), which is left out.
Raises(kind) ==
    [class |-> "Exception",
     message |-> IF kind = "APIError" THEN "OpenAI API error: "
                 ELSE IF kind = "JSONDecodeError"
                      THEN "Failed to parse OpenAI response as JSON: "
                 ELSE "Error extracting data with OpenAI: "]

InitModel ==
    /\ USE_OPENAI_EXTRACTION = TRUE
    /\ OPENAI_API_KEY = "sk-key"
    /\ ENABLE_FALLBACK \in BOOLEAN
    /\ pc = "idle"
    /\ document \in ModelTexts
    /\ use_openai = TRUE
    /\ extracted_metrics = Dict(<<>>)
    /\ extraction_method = "none"
    /\ raised = "none"
    /\ model_failure = "none"
    /\ api_requests = <<>>
    /\ model_response = None
    /\ regex_runs = 0
    /\ faults = {}
    /\ files = <<>>
    /\ results = <<>>
    /\ errors = <<>>
    /\ uploads = <<>>
    /\ requests = <<>>

\* extract_structured_data(document) returns: the canonical empty record
\* for a blank text, else the parsed response to its one request.
structured_data_return ==
    /\ pc = "idle"
    /\ \E response \in ModelResponses :
          /\ model_response' = IF IsBlank(document) THEN None ELSE response
          /\ extracted_metrics' = extract_structured_data(document, response)
    /\ api_requests' = api_requests \o RequestsFor(document)
    /\ pc' = "returned"
    /\ UNCHANGED <<config, document, use_openai, extraction_method, raised,
                   model_failure, regex_runs, faults, batch, upload>>

\* extract_structured_data(document) raises: something in the try block
\* failed, and the except clause raises an Exception in its place.
structured_data_raise ==
    /\ pc = "idle"
    /\ ~IsBlank(document)
    /\ \E kind \in StructuredDataFailures :
          /\ model_failure' = kind
          /\ raised' = Raises(kind)
    /\ api_requests' = api_requests \o RequestsFor(document)
    /\ pc' = "raised"
    /\ UNCHANGED <<config, document, use_openai, extracted_metrics,
                   extraction_method, model_response, regex_runs, faults,
                   batch, upload>>

NextModel == structured_data_return \/ structured_data_raise

SpecModel == InitModel /\ [][NextModel]_vars

\* Whether every character of a text is whitespace (so also the empty text).
OnlyWhitespace(text) == \A i \in 1..Len(text) : text[i] \in Whitespace

\* The record of the schema's shape with every FieldValue null and every
\* list empty.
AllNullRecord ==
    SampleRecord([filled |-> 0, cited |-> 0, orphan |-> FALSE,
                  items |-> 0, items_cited |-> FALSE, missing |-> FALSE])

\* C16: for an empty or whitespace-only text the model strategy returns the
\* all-null record of the schema's shape (six groups, every declared field,
\* FieldValues null, lists empty) and sends no request to the service.
C16_BlankTextGivesCanonicalRecord ==
    (pc \in {"returned", "raised"} /\ OnlyWhitespace(document)) =>
        /\ pc = "returned"
        /\ extracted_metrics = AllNullRecord
        /\ api_requests = <<>>

C16_Witness ==
    /\ pc = "returned"
    /\ document # <<>>
    /\ OnlyWhitespace(document)
    /\ extracted_metrics = AllNullRecord
    /\ api_requests = <<>>

\* C17: the text sent to the service is the document itself when it has at
\* most MaxChars characters, else the document's first MaxChars / 2
\* characters, the truncation marker, and its last MaxChars / 2 characters.
C17_PrepareTextKeepsBothEnds ==
    (pc \in {"returned", "raised"} /\ ~OnlyWhitespace(document)) =>
        api_requests =
            <<IF Len(document) <= MaxChars THEN document
              ELSE SubSeq(document, 1, MaxChars \div 2)
                   \o TruncationMarker
                   \o SubSeq(document, Len(document) - (MaxChars \div 2) + 1,
                             Len(document))>>

C17_Witness ==
    /\ pc = "returned"
    /\ Len(document) > MaxChars + 1
    /\ Len(api_requests) = 1
    /\ Len(api_requests[1]) = MaxChars + Len(TruncationMarker)
    /\ api_requests[1][1] = document[1]
    /\ api_requests[1][Len(api_requests[1])] = document[Len(document)]

\* C18: a failure of the service and a failure to parse its response reach
\* the caller of the model strategy as errors of two different kinds, and
\* neither is turned into a record.
C18_FailuresAreDistinctErrorKinds ==
    pc = "raised" =>
        /\ extracted_metrics = Dict(<<>>)
        /\ model_failure = "APIError" =>
               raised.class # Raises("JSONDecodeError").class
        /\ model_failure = "JSONDecodeError" =>
               raised.class # Raises("APIError").class

(***************************************************************************)
(* Batch upload (routes.py, SpecBatch).  An uploaded file is its filename,  *)
(* whether its content can be parsed, and whether the model service answers *)
(* for it.                                                                  *)
(***************************************************************************)

ALLOWED_EXTENSIONS ==
    {<<"p", "d", "f">>, <<"d", "o", "c", "x">>, <<"x", "l", "s", "x">>}

\* The index of the last "." of a filename, 0 when it has none.
RECURSIVE LastDot(_)
LastDot(filename) ==
    IF filename = <<>> \/ filename[Len(filename)] = "." THEN Len(filename)
    ELSE LastDot(SubSeq(filename, 1, Len(filename) - 1))

\* filename.rsplit('.', 1)[1].lower(), for a filename that has a "."
Extension(filename) ==
    LET ext == SubSeq(filename, LastDot(filename) + 1, Len(filename))
    IN [i \in 1..Len(ext) |-> Lower(ext[i])]

allowed_file(filename) ==
    LastDot(filename) > 0 /\ Extension(filename) \in ALLOWED_EXTENSIONS

\* get_file_type for a filename that has a "."; "none" is None.
get_file_type(filename) ==
    IF Extension(filename) = <<"p", "d", "f">> THEN "pdf"
    ELSE IF Extension(filename) = <<"d", "o", "c", "x">> THEN "word"
    ELSE IF Extension(filename) = <<"x", "l", "s", "x">> THEN "excel"
    ELSE "none"

\* "_".join(s.split()) of a stripped text: every run of whitespace becomes
\* one underscore.
RECURSIVE JoinWords(_)
JoinWords(s) ==
    IF s = <<>> THEN <<>>
    ELSE IF Head(s) \in Whitespace THEN <<"_">> \o JoinWords(LStrip(s))
    ELSE <<Head(s)>> \o JoinWords(Tail(s))

\* str.strip("._")
RECURSIVE StripDots(_)
StripDots(s) ==
    IF s # <<>> /\ Head(s) \in {".", "_"} THEN StripDots(Tail(s))
    ELSE IF s # <<>> /\ s[Len(s)] \in {".", "_"}
         THEN StripDots(SubSeq(s, 1, Len(s) - 1))
    ELSE s

\* The characters secure_filename keeps.
SafeChars ==
    DOMAIN LowerMap \cup {LowerMap[u] : u \in DOMAIN LowerMap}
    \cup Digits \cup {"_", ".", "-"}

\* werkzeug's secure_filename on ASCII names: path separators become
\* spaces, words are joined by "_", characters other than letters, digits,
\* "_", "." and "-" are dropped, leading and trailing "." and "_" removed.
secure_filename(filename) ==
    StripDots(SelectSeq(
        JoinWords(strip([i \in 1..Len(filename) |->
                            IF filename[i] = "/" THEN " " ELSE filename[i]])),
        LAMBDA c : c \in SafeChars))

File(filename, content, model) ==
    [filename |-> filename, content |-> content, model |-> model]

\* The uploaded files of the model.
FileSamples ==
    {File(<<"a", ".", "p", "d", "f">>, "ok", "ok"),
     File(<<"b", ".", "t", "x", "t">>, "ok", "ok"),
     File(<<"c", ".", "d", "o", "c", "x">>, "corrupt", "ok"),
     File(<<"d", ".", "x", "l", "s", "x">>, "ok", "fails"),
     File(<<>>, "ok", "ok"),
     File(<<"m", "y", " ", "f", ".", "P", "D", "F">>, "ok", "ok"),
     File(<<".", "p", "d", "f">>, "ok", "ok"),
     File(<<"n", "o", "e", "x", "t">>, "ok", "ok")}

\* The number of files of an upload.
MaxFiles == 3

\* The outcome of one file, with one error appended or one result.
Failed(file, error) ==
    [results |-> <<>>,
     errors |-> <<[file |-> file.filename, error |-> error]>>]
Extracted(filename, method) ==
    [results |-> <<[filename |-> filename, extraction_method |-> method]>>,
     errors |-> <<>>]

\* DataExtractor(filepath, file_type, use_openai).extract_all() for a saved
\* file, with self.use_openai = uo: the constructor rejects a file type of
\* None, the parser raises on content it cannot read, then extract_all takes
\* the model, fallback, raise or regex path.
ExtractFile(file, filename, uo) ==
    IF get_file_type(filename) = "none"
    THEN Failed(file, "'NoneType' object has no attribute 'lower'")
    ELSE IF file.content = "corrupt"
    THEN Failed(file, "Error parsing document")
    ELSE IF uo /\ validate_openai_config
    THEN IF file.model = "ok" THEN Extracted(filename, "openai")
         ELSE IF ENABLE_FALLBACK THEN Extracted(filename, "regex_fallback")
         ELSE Failed(file, "OpenAI extraction failed and fallback disabled")
    ELSE Extracted(filename, "regex")

\* The body of the loop of batch_upload for one file.
ProcessFile(file, uo) ==
    IF file.filename = <<>> THEN [results |-> <<>>, errors |-> <<>>]
    ELSE IF ~allowed_file(file.filename)
    THEN Failed(file, "File type not supported")
    ELSE IF LastDot(secure_filename(file.filename)) = 0
    THEN Failed(file, "list index out of range")
    ELSE ExtractFile(file, secure_filename(file.filename), uo)

\* The outcomes of the loop of batch_upload, one for each file in turn.
Outcomes(fs, uo) == [i \in 1..Len(fs) |-> ProcessFile(fs[i], uo)]

\* The results of the files before the first one that fails.
RECURSIVE BatchResults_until_error(_)
BatchResults_until_error(outcomes) ==
    IF outcomes = <<>> \/ Head(outcomes).errors # <<>> THEN <<>>
    ELSE Head(outcomes).results \o BatchResults_until_error(Tail(outcomes))

\* results after the loop
BatchResults(outcomes) ==
    Flatten([i \in 1..Len(outcomes) |-> outcomes[i].results])

\* errors after the loop
BatchErrors(outcomes) ==
    Flatten([i \in 1..Len(outcomes) |-> outcomes[i].errors])

InitBatch ==
    /\ USE_OPENAI_EXTRACTION \in BOOLEAN
    /\ OPENAI_API_KEY \in {"", "sk-key"}
    /\ ENABLE_FALLBACK \in BOOLEAN
    /\ pc = "idle"
    /\ document = <<>>
    /\ use_openai = FALSE
    /\ extracted_metrics = Dict(<<>>)
    /\ extraction_method = "none"
    /\ raised = "none"
    /\ model_failure = "none"
    /\ api_requests = <<>>
    /\ model_response = None
    /\ regex_runs = 0
    /\ faults = {}
    /\ files \in UNION {[1..n -> FileSamples] : n \in 0..MaxFiles}
    /\ results = <<>>
    /\ errors = <<>>
    /\ uploads = <<>>
    /\ requests = <<>>

\* file.save(filepath): the file at the path is created or overwritten.
file_save(folder, filepath, content) ==
    IF \E i \in 1..Len(folder) : folder[i].path = filepath
    THEN [i \in 1..Len(folder) |->
            IF folder[i].path = filepath
            THEN [path |-> filepath, content |-> content]
            ELSE folder[i]]
    ELSE Append(folder, [path |-> filepath, content |-> content])

\* The uploads folder after the loop of batch_upload: every file with a
\* filename and a supported extension is saved under its secured name
\* (lines 101-105).
RECURSIVE save_files(_, _)
save_files(folder, fs) ==
    IF fs = <<>> THEN folder
    ELSE save_files(
            IF Head(fs).filename # <<>> /\ allowed_file(Head(fs).filename)
            THEN file_save(folder, secure_filename(Head(fs).filename),
                           Head(fs).content)
            ELSE folder,
            Tail(fs))

\* batch_upload without a 'files' part in the request: 400.
batch_upload_no_files ==
    /\ pc = "idle"
    /\ files = <<>>
    /\ pc' = "rejected"
    /\ UNCHANGED <<config, document, use_openai, extracted_metrics,
                   extraction_method, raised, model_failure, api_requests,
                   model_response, regex_runs, faults, batch, upload>>

\* batch_upload over the files of the request; arg is the use_openai query
\* parameter: "none" (absent), "true" or "false".
batch_upload_files ==
    /\ pc = "idle"
    /\ files # <<>>
    /\ \E arg \in {"none", "true", "false"} :
          LET uo == IF arg # "none" THEN arg = "true"
                    ELSE USE_OPENAI_EXTRACTION
              outcomes == Outcomes(files, uo)
          IN /\ use_openai' = uo
             /\ results' = BatchResults(outcomes)
             /\ errors' = BatchErrors(outcomes)
    /\ pc' = "responded"
    /\ uploads' = save_files(uploads, files)
    /\ UNCHANGED <<config, document, extracted_metrics, extraction_method,
                   raised, model_failure, api_requests, model_response,
                   regex_runs, faults, files, requests>>

batch_upload == batch_upload_no_files \/ batch_upload_files

SpecBatch == InitBatch /\ [][batch_upload]_vars

\* Whether a file of a batch fails: its extension is not supported, nothing
\* is left of its name before the extension, its content cannot be decoded,
\* or the model strategy is used, fails for it, and there is no fallback.
FileFails(file) ==
    /\ file.filename # <<>>
    /\ \/ ~allowed_file(file.filename)
       \/ LastDot(secure_filename(file.filename)) = 0
       \/ file.content = "corrupt"
       \/ /\ use_openai /\ OPENAI_API_KEY # ""
          /\ file.model = "fails"
          /\ ~ENABLE_FALLBACK

FileSucceeds(file) == file.filename # <<>> /\ ~FileFails(file)

\* C19: after a batch, the error entries name the files that failed, one
\* entry each and in submission order, whatever came before them, and the
\* results are those of the other named files, in submission order.
C19_BatchIsolatesFailures ==
    pc = "responded" =>
        LET failed == SelectSeq(files, FileFails)
            succeeded == SelectSeq(files, FileSucceeds)
        IN /\ [i \in 1..Len(errors) |-> errors[i].file] =
                  [i \in 1..Len(failed) |-> failed[i].filename]
           /\ [i \in 1..Len(results) |-> results[i].filename] =
                  [i \in 1..Len(succeeded) |->
                      secure_filename(succeeded[i].filename)]

C19_Witness ==
    /\ pc = "responded"
    /\ Len(files) = 3
    /\ files[2].filename = <<"b", ".", "t", "x", "t">>
    /\ files[1].filename # files[3].filename
    /\ Len(results) = 2
    /\ results[1].filename = secure_filename(files[1].filename)
    /\ results[2].filename = secure_filename(files[3].filename)
    /\ errors = <<[file |-> files[2].filename,
                   error |-> "File type not supported"]>>

(***************************************************************************)
(* The regex strategy with failing calls (SpecFault): faults is the set of  *)
(* keys whose call raises inside its try block, whatever the cause.         *)
(***************************************************************************)

\* What the bare except clause of a call returns (lines 235-236, 270-271).
ExceptValue(call) == IF call \in ListCalls THEN List(<<>>) ELSE NullField

\* EntryValueOrExcept with every call failing as soon as one does.
EntryValueOrExcept_all(text, e, failing) ==
    IF e.call # "" /\ failing # {} THEN ExceptValue(e.call)
    ELSE EntryValue(text, e)

\* The value of an entry's call when the calls for the keys in failing
\* raise inside their try block.
EntryValueOrExcept(text, e, failing) ==
    IF e.call # "" /\ e.key \in failing THEN ExceptValue(e.call)
    ELSE EntryValue(text, e)

GroupDictOrExcept(text, entries, failing) ==
    Dict([i \in 1..Len(entries) |->
            KV(entries[i].key, EntryValueOrExcept(text, entries[i], failing))])

\* _extract_metrics_regex when the calls for the keys in failing raise.
_extract_metrics_regex_or_except(text, failing) ==
    Dict(<<KV("property_details",
              GroupDictOrExcept(text, PropertyDetailsEntries, failing)),
           KV("financial_metrics",
              GroupDictOrExcept(text, FinancialMetricsEntries, failing)),
           KV("loan_details",
              GroupDictOrExcept(text, LoanDetailsEntries, failing)),
           KV("tenant_information",
              GroupDictOrExcept(text, TenantInformationEntries, failing)),
           KV("market_analysis",
              GroupDictOrExcept(text, MarketAnalysisEntries, failing)),
           KV("risk_assessment",
              GroupDictOrExcept(text, RiskAssessmentEntries, failing)),
           KV("extraction_metadata", EmptyMetadata)>>)

\* The keys whose calls are made to fail.
FaultKeys == {"cap_rate", "interest_rate", "lender", "major_tenants"}

InitFault ==
    /\ USE_OPENAI_EXTRACTION = FALSE
    /\ OPENAI_API_KEY = ""
    /\ ENABLE_FALLBACK = TRUE
    /\ pc = "idle"
    /\ document \in Texts
    /\ use_openai = FALSE
    /\ extracted_metrics = Dict(<<>>)
    /\ extraction_method = "none"
    /\ raised = "none"
    /\ model_failure = "none"
    /\ api_requests = <<>>
    /\ model_response = None
    /\ regex_runs = 0
    /\ faults \in SUBSET FaultKeys
    /\ files = <<>>
    /\ results = <<>>
    /\ errors = <<>>
    /\ uploads = <<>>
    /\ requests = <<>>

\* self._extract_metrics_regex(text) with the calls in faults raising.
extract_metrics_regex ==
    /\ pc = "idle"
    /\ extracted_metrics' = _extract_metrics_regex_or_except(document, faults)
    /\ regex_runs' = regex_runs + 1
    /\ pc' = "returned"
    /\ UNCHANGED <<config, document, use_openai, extraction_method, raised,
                   model_failure, api_requests, model_response, faults,
                   batch, upload>>

SpecFault == InitFault /\ [][extract_metrics_regex]_vars

\* Whether a record has the groups and keys of clean, with a null field or
\* an empty list under the keys in failing and clean's value under all
\* other keys.
SameExceptFailing(clean, record, failing) ==
    /\ Len(record.d) = Len(clean.d)
    /\ \A g \in 1..Len(clean.d) :
          /\ record.d[g].k = clean.d[g].k
          /\ Len(record.d[g].v.d) = Len(clean.d[g].v.d)
          /\ \A i \in 1..Len(clean.d[g].v.d) :
                /\ record.d[g].v.d[i].k = clean.d[g].v.d[i].k
                /\ record.d[g].v.d[i].v =
                       IF clean.d[g].v.d[i].k \notin failing
                       THEN clean.d[g].v.d[i].v
                       ELSE IF clean.d[g].v.d[i].v.t = "list" THEN List(<<>>)
                       ELSE NullField

\* C20: when the extraction of some fields fails in the regex strategy, the
\* strategy still returns a record and raises nothing; each failing field is
\* null (an empty list for a list field) and every other field has the
\* value it has when nothing fails.
C20_FieldFailureIsIsolated ==
    pc = "returned" =>
        /\ raised = "none"
        /\ SameExceptFailing(_extract_metrics_regex(document),
                             extracted_metrics, faults)

C20_Witness ==
    /\ pc = "returned"
    /\ faults = {"cap_rate"}
    /\ Field(extracted_metrics, "financial_metrics", "cap_rate") = NullField
    /\ Get(Field(extracted_metrics, "loan_details", "interest_rate"),
           "value") = Str(<<"6", ".", "5">>)
    /\ Get(Field(_extract_metrics_regex(document), "financial_metrics",
                 "cap_rate"), "value") = Str(<<"6", ".", "5">>)

(***************************************************************************)
(* The catalog's patterns against labelled lines (Spec, SpecCite).          *)
(***************************************************************************)

\* The text "Net Operating Income (NOI): $2,500,000\nCap Rate: 6.5%".
NoiExampleText == JoinLines(<<SampleLines[6], SampleLines[1]>>)

\* C21: for the text "Net Operating Income (NOI): $2,500,000\nCap Rate: 6.5%"
\* the regex strategy yields financial_metrics.noi_annual.value equal to
\* 2500000 or "2,500,000" and financial_metrics.cap_rate.value equal to "6.5",
\* and the source_text of each of the two fields includes its line.
C21_ExampleYieldsNoiAndCapRate ==
    (/\ pc = "returned"
     /\ extraction_method \in {"regex", "regex_fallback"}
     /\ document = NoiExampleText) =>
        LET noi == Field(extracted_metrics, "financial_metrics", "noi_annual")
            cap == Field(extracted_metrics, "financial_metrics", "cap_rate")
        IN  /\ Get(noi, "value") \in
                  {PyInt(2500000),
                   Str(<<"2",",","5","0","0",",","0","0","0">>)}
            /\ Get(cap, "value") = Str(<<"6",".","5">>)
            /\ Get(noi, "source_text") # None
            /\ Contains(Get(noi, "source_text").s, SampleLines[6])
            /\ Get(cap, "source_text") # None
            /\ Contains(Get(cap, "source_text").s, SampleLines[1])

\* C25: patterns are line-anchored: every match a value is recorded for
\* begins a line of the text, so a label that is the tail of a longer label
\* does not populate its field; a text whose only labelled line is
\* "Cap Rate: 6.5%" leaves interest_rate null.
C25_LabelsMatchAtLineStartOnly ==
    pc = "cited" =>
        /\ \A i \in 1..Len(RecordedMatches) :
              \/ RecordedMatches[i].start = 1
              \/ document[RecordedMatches[i].start - 1] = "\n"
        /\ (document = SampleLines[1] /\ CiteEntry.key = "interest_rate")
              => CiteResult = NullField

\* C30: for every single-value field the recorded value is taken from the
\* line of the field's label: the match a value is recorded for does not
\* run over a line break, so a label followed only by whitespace up to the
\* end of its line does not take the following line as its value.
C30_ValueFromTheLabelsLine ==
    (pc = "cited" /\ CiteEntry.call \in SingleCalls) =>
        \A i \in 1..Len(RecordedMatches) :
            ~Contains(MatchText(document, RecordedMatches[i]), <<"\n">>)

(***************************************************************************)
(* Texts with many entries of a list field (SpecList): up to MaxMatches     *)
(* labelled lines "<label>: <name>", every second one with a trailing       *)
(* space, optionally ended by a line whose label has only blanks after it;  *)
(* and the two sample lines that end in blanks.                             *)
(***************************************************************************)
MaxMatches == 7

ListLabels ==
    {<<"T","e","n","a","n","t">>, <<"R","i","s","k">>, <<"T","r","e","n","d">>,
     <<"C","o","m","p">>, <<"M","i","t","i","g","a","t","i","o","n">>}

ItemNames == <<"A","B","C","D","E","F","G","H","I","J">>

ListLine(label, i) ==
    label \o <<":", " ", ItemNames[i]>> \o (IF i % 2 = 0 THEN <<" ">> ELSE <<>>)

BlankLine(label) == label \o <<":", " ", " ">>

ListTexts ==
    {JoinLines([i \in 1..n |-> ListLine(label, i)]
               \o (IF blank THEN <<BlankLine(label)>> ELSE <<>>)) :
        label \in ListLabels, n \in 0..MaxMatches, blank \in BOOLEAN}
    \cup {SampleLines[3], SampleLines[4]}

InitList ==
    /\ USE_OPENAI_EXTRACTION = FALSE
    /\ OPENAI_API_KEY = ""
    /\ ENABLE_FALLBACK = TRUE
    /\ pc = "idle"
    /\ document \in ListTexts
    /\ use_openai = FALSE
    /\ extracted_metrics = Dict(<<>>)
    /\ extraction_method = "none"
    /\ raised = "none"
    /\ model_failure = "none"
    /\ api_requests = <<>>
    /\ model_response = None
    /\ regex_runs = 0
    /\ faults = {}
    /\ files = <<>>
    /\ results = <<>>
    /\ errors = <<>>
    /\ uploads = <<>>
    /\ requests = <<>>

SpecList == InitList /\ [][NextCite]_vars

\* match.group(1), before it is trimmed.
Captured(text, m) == SubSeq(text, m.gs, m.ge - 1)

\* A string with no whitespace at either end, and not the empty string.
Trimmed(s) ==
    /\ s # <<>>
    /\ s[1] \notin Whitespace
    /\ s[Len(s)] \notin Whitespace

\* The matches among the first n whose captured text is not all whitespace.
NonBlankAmongFirst(matches, n) ==
    SelectSeq(SubSeq(matches, 1, IF Len(matches) < n THEN Len(matches) ELSE n),
              LAMBDA m : \E k \in m.gs..(m.ge - 1) : document[k] \notin Whitespace)

\* The values of the entries of a returned list, in order.
EntryValues(list) == [i \in 1..Len(list.l) |-> list.l[i].d[1].v]

\* C22: a recorded value is trimmed of surrounding whitespace and is never
\* the empty string; a captured value that trims to empty is treated as no
\* match: a single-value field gets a null value and a null source_text, a
\* list field gets no entry for it.
C22_BlankCaptureIsNoMatch ==
    pc = "cited" =>
        IF CiteEntry.call \in SingleCalls
        THEN /\ Get(CiteResult, "value") # None
                   => Trimmed(Get(CiteResult, "value").s)
             /\ (UsedMatches # <<>> /\ NonBlankAmongFirst(UsedMatches, 1) = <<>>)
                   => /\ Get(CiteResult, "value") = None
                      /\ Get(CiteResult, "source_text") = None
        ELSE /\ \A i \in 1..Len(CiteResult.l) :
                   /\ EntryValues(CiteResult)[i].t = "str"
                   /\ Trimmed(EntryValues(CiteResult)[i].s)
             /\ Len(CiteResult.l)
                   = Len(NonBlankAmongFirst(UsedMatches, Len(UsedMatches)))

\* A list call on a text whose last match captures only blanks, after
\* matches whose values are kept.
C22_Witness ==
    /\ pc = "cited"
    /\ CiteEntry.call \in ListCalls
    /\ Len(CiteResult.l) >= 2
    /\ Len(NonBlankAmongFirst(UsedMatches, Len(UsedMatches))) < Len(UsedMatches)

\* C23: for every list field and every text, the returned list has at most
\* 5 entries, and they are, in the order of the text, the trimmed values of
\* the matches with a non-empty value among the first 5 matches.
C23_ListBoundedInDocumentOrder ==
    (pc = "cited" /\ CiteEntry.call \in ListCalls) =>
        LET kept == NonBlankAmongFirst(CiteMatches, 5)
        IN  /\ Len(CiteResult.l) <= 5
            /\ Len(CiteResult.l) = Len(kept)
            /\ \A i \in 1..Len(kept) :
                  /\ EntryValues(CiteResult)[i]
                        = Str(strip(Captured(document, kept[i])))
                  /\ i > 1 => kept[i - 1].start < kept[i].start

\* A list call on a text with more than 5 matches of its pattern.
C23_Witness ==
    /\ pc = "cited"
    /\ CiteEntry.call \in ListCalls
    /\ Len(CiteMatches) > 5
    /\ Len(CiteResult.l) = 5

(***************************************************************************)
(* The shape of the regex strategy's record (SpecShape): the record of      *)
(* _extract_metrics_regex on the texts with list entries, without and with  *)
(* failing calls.                                                           *)
(***************************************************************************)
InitShape ==
    /\ USE_OPENAI_EXTRACTION = FALSE
    /\ OPENAI_API_KEY = ""
    /\ ENABLE_FALLBACK = TRUE
    /\ pc = "idle"
    /\ document \in ListTexts
    /\ use_openai = FALSE
    /\ extracted_metrics = Dict(<<>>)
    /\ extraction_method = "none"
    /\ raised = "none"
    /\ model_failure = "none"
    /\ api_requests = <<>>
    /\ model_response = None
    /\ regex_runs = 0
    /\ faults \in {{}, FaultKeys}
    /\ files = <<>>
    /\ results = <<>>
    /\ errors = <<>>
    /\ uploads = <<>>
    /\ requests = <<>>

SpecShape == InitShape /\ [][extract_metrics_regex]_vars

\* Whether a value has the multiplicity a property of the schema declares,
\* and each entry of a list the property's label key next to source_text.
HasShapeOf(value, property) ==
    IF property.kind = "field"
    THEN /\ value.t = "dict"
         /\ Keys(value) = <<"value", "unit", "source_text">>
    ELSE /\ value.t = "list"
         /\ \A i \in 1..Len(value.l) :
               Keys(value.l[i]) = <<property.label, "source_text">>

\* Whether a record has the groups, the keys and the multiplicities of
\* CRE_EXTRACTION_SCHEMA, followed by extraction_metadata.
HasSchemaShape(record) ==
    /\ Len(record.d) = Len(CRE_EXTRACTION_SCHEMA) + 1
    /\ \A g \in 1..Len(CRE_EXTRACTION_SCHEMA) :
          /\ record.d[g].k = CRE_EXTRACTION_SCHEMA[g].name
          /\ Len(record.d[g].v.d) = Len(CRE_EXTRACTION_SCHEMA[g].fields)
          /\ \A i \in 1..Len(CRE_EXTRACTION_SCHEMA[g].fields) :
                /\ record.d[g].v.d[i].k = CRE_EXTRACTION_SCHEMA[g].fields[i].key
                /\ HasShapeOf(record.d[g].v.d[i].v,
                              CRE_EXTRACTION_SCHEMA[g].fields[i])
    /\ record.d[Len(record.d)].k = "extraction_metadata"

C26_EveryFileAccountedFor ==
    pc = "responded" => Len(results) + Len(errors) = Len(files)

\* C27: the text handed to the model service is never longer than the
\* document and never longer than the budget of MaxChars characters, and a
\* document that exceeds the budget is sent strictly shorter than it is.
C27_PreparedTextWithinBudget ==
    pc \in {"returned", "raised"} =>
        \A i \in 1..Len(api_requests) :
            /\ Len(api_requests[i]) <= Len(document)
            /\ Len(api_requests[i]) <= MaxChars
            /\ Len(document) > MaxChars
                  => Len(api_requests[i]) < Len(document)

\* The response that has the six groups of a response and, in its
\* extraction_metadata, the other of the two sampled missing_fields lists.
OtherMetadata(response) ==
    SetMetadata(response, "missing_fields",
                IF Metadata(response, "missing_fields") = List(<<>>)
                THEN List(<<Str(<<"loan_details", "lender">>)>>)
                ELSE List(<<>>))

\* C28: the scorer's output does not depend on the extraction_metadata the
\* service returned: a response with the same six groups and another
\* missing_fields list gets the same confidence_score, citation counts,
\* citation_coverage_percent and missing_fields.
C28_ScoreIgnoresReturnedMetadata ==
    pc = "scored" =>
        /\ Content(OtherMetadata(model_response)) = Content(model_response)
        /\ Get(ScoreResult(OtherMetadata(model_response)), "extraction_metadata")
              = Get(extracted_metrics, "extraction_metadata")

(***************************************************************************)
(* Concurrent uploads (routes.py, SpecUpload): up to MaxRequests requests   *)
(* to upload_file handled by the server's threads at the same time, with    *)
(* the model strategy off and no use_openai argument.  A request saves its  *)
(* file under uploads/<secured filename> and then reads it back; the steps  *)
(* of different requests interleave.                                        *)
(***************************************************************************)
MaxRequests == 2

\* The uploaded files of the requests: their content is the text their
\* parser gives.
UploadSamples ==
    {File(name, content, "ok") :
        name \in {<<"m","y"," ","f",".","p","d","f">>,
                  <<"m","y","_","f",".","p","d","f">>,
                  <<"b",".","t","x","t">>,
                  <<".","p","d","f">>,
                  <<>>},
        content \in {SampleLines[1], SampleLines[2]}}

\* jsonify(body), status
Response(status, body) == [status |-> status, body |-> body]

\* A request that has been received, with file = request.files['file'].
Request(file) ==
    [file |-> file, pc |-> "received", filepath |-> <<>>,
     response |-> Response(0, None)]

InitUpload ==
    /\ USE_OPENAI_EXTRACTION = FALSE
    /\ OPENAI_API_KEY = ""
    /\ ENABLE_FALLBACK = TRUE
    /\ pc = "idle"
    /\ document = <<>>
    /\ use_openai = FALSE
    /\ extracted_metrics = Dict(<<>>)
    /\ extraction_method = "none"
    /\ raised = "none"
    /\ model_failure = "none"
    /\ api_requests = <<>>
    /\ model_response = None
    /\ regex_runs = 0
    /\ faults = {}
    /\ files = <<>>
    /\ results = <<>>
    /\ errors = <<>>
    /\ uploads = <<>>
    /\ requests \in UNION {[1..n -> {Request(f) : f \in UploadSamples}] :
                              n \in 1..MaxRequests}

\* upload_file, lines 47-52: no file selected, or a file type that is not
\* supported: 400.
upload_file_reject(r) ==
    /\ requests[r].pc = "received"
    /\ \/ requests[r].file.filename = <<>>
       \/ ~allowed_file(requests[r].file.filename)
    /\ requests' =
          [requests EXCEPT
              ![r].pc = "responded",
              ![r].response =
                  Response(400, IF requests[r].file.filename = <<>>
                                THEN "No file selected"
                                ELSE "File type not supported")]
    /\ UNCHANGED <<config, pc, document, use_openai, extracted_metrics,
                   extraction_method, raised, model_failure, api_requests,
                   model_response, regex_runs, faults, batch, uploads>>

\* upload_file, lines 59-64: the file is saved under its secured name.
upload_file_save(r) ==
    /\ requests[r].pc = "received"
    /\ requests[r].file.filename # <<>>
    /\ allowed_file(requests[r].file.filename)
    /\ uploads' = file_save(uploads,
                            secure_filename(requests[r].file.filename),
                            requests[r].file.content)
    /\ requests' =
          [requests EXCEPT
              ![r].pc = "saved",
              ![r].filepath = secure_filename(requests[r].file.filename)]
    /\ UNCHANGED <<config, pc, document, use_openai, extracted_metrics,
                   extraction_method, raised, model_failure, api_requests,
                   model_response, regex_runs, faults, batch>>

\* parser.extract_text() on the file at a path, as it is when it is read.
extract_text(folder, filepath) ==
    folder[CHOOSE i \in 1..Len(folder) : folder[i].path = filepath].content

\* upload_file, lines 67-74: get_file_type, DataExtractor and extract_all on
\* the saved path: 200 with the record of the text read from the path, or
\* 500 when get_file_type raises for a name without an extension.
upload_file_extract(r) ==
    /\ requests[r].pc = "saved"
    /\ requests' =
          [requests EXCEPT
              ![r].pc = "responded",
              ![r].response =
                  IF LastDot(requests[r].filepath) = 0
                  THEN Response(500, "list index out of range")
                  ELSE Response(200,
                          _extract_metrics_regex(
                              extract_text(uploads, requests[r].filepath)))]
    /\ UNCHANGED <<config, pc, document, use_openai, extracted_metrics,
                   extraction_method, raised, model_failure, api_requests,
                   model_response, regex_runs, faults, batch, uploads>>

upload_file ==
    \/ \E r \in 1..Len(requests) : upload_file_reject(r)
    \/ \E r \in 1..Len(requests) : upload_file_save(r)
    \/ \E r \in 1..Len(requests) : upload_file_extract(r)

SpecUpload == InitUpload /\ [][upload_file]_vars

\* C29: requests handled at the same time are independent: in every
\* interleaving of their save and extract steps, also when two files have
\* the same secured filename, the record a request responds with is the
\* record of the content of its own file.
C29_ConcurrentUploadsIndependent ==
    \A r \in 1..Len(requests) :
        (requests[r].pc = "responded" /\ requests[r].response.status = 200)
            => requests[r].response.body
                  = _extract_metrics_regex(requests[r].file.content)

=============================================================================
